---------------------------- MODULE Spec2Model ----------------------------
(***************************************************************************)
(* A model of the decode-and-time pipeline of midix: the chunk-to-file     *)
(* builder (MidiFileBuilder), the track assembler (Track::new), the timed  *)
(* event projector (TimedEventIterator), the track event reader            *)
(* (TrackEvent::read) and MidiFile::parse.                                 *)
(*                                                                         *)
(* Option<T> is a sequence of length 0 (None) or 1 (Some(v)).              *)
(***************************************************************************)
EXTENDS Integers, Sequences, FiniteSets, TLC

None == <<>>

Some(v) == <<v>>

IsSome(o) == Len(o) = 1

Unwrap(o) == o[1]

(***************************************************************************)
(* State                                                                   *)
(***************************************************************************)

VARIABLES
    format,          \* MidiFileBuilder.format : FormatStage
    timing,          \* MidiFileBuilder.timing : Option<Timing>
    unknown_chunks,  \* MidiFileBuilder.unknown_chunks
    handled,         \* history: the chunks handled so far with their results
    built,           \* history: the result of build(), once called
    file,            \* the MidiFile handed to into_events
    iter,            \* the OptTimedEventIterator, once into_events was called
    results,         \* history: what each call of next() returned, in order
    reader,          \* Reader: the bytes of one track body and the cursor
    running_status,  \* the running status cell of one track body decode
    reads,           \* history: the calls of TrackEvent::read with their results
    source,          \* the chunks encoded in the buffer given to parse, unread
    parsed,          \* history: how MidiFile::parse ended, once it did
    call,            \* a call of a constructor or an operator: its name and arguments
    returned         \* history: what the call returned, once it did

varsBuilder == <<format, timing, unknown_chunks, handled, built>>

varsIter == <<file, iter, results>>

varsReader == <<reader, running_status, reads>>

varsParse == <<source, parsed>>

varsCall == <<call, returned>>

vars == <<varsBuilder, varsIter, varsReader, varsParse, varsCall>>

(***************************************************************************)
(* f64 arithmetic.  Natural numbers of any size are little-endian bit       *)
(* sequences without high zero bits (zero is <<>>).  A non-negative f64 is  *)
(* [cls, m, e]: cls "fin" with value m * 2^e, m an odd bit sequence of at   *)
(* most 53 bits (or zero with e = 0); or cls "inf" or "nan".  Results are   *)
(* rounded to nearest, ties to even, as IEEE 754 binary64 does; exponents   *)
(* stay far inside the binary64 range for every value computed here.        *)
(*                                                                         *)
(* A value that is used more than once is bound by a set constructor,      *)
(* CHOOSE r \in {body : v \in {value}} : TRUE, which evaluates it once.     *)
(***************************************************************************)

RECURSIVE FoldRange(_, _, _, _)
\* Op(... Op(Op(acc, lo), lo + 1) ..., hi): a loop over lo..hi, split in
\* halves so that the evaluation stays shallow
FoldRange(Op(_, _), acc, lo, hi) ==
    IF lo > hi THEN acc
    ELSE IF lo = hi THEN Op(acc, lo)
    ELSE CHOOSE r \in {FoldRange(Op, left, ((lo + hi) \div 2) + 1, hi) :
                        left \in {FoldRange(Op, acc, lo, (lo + hi) \div 2)}} : TRUE

RECURSIVE BigFromNat(_)
\* the bits of a natural number below 2^31
BigFromNat(n) == IF n = 0 THEN <<>> ELSE <<n % 2>> \o BigFromNat(n \div 2)

\* drops high zero bits
BigNorm(a0) ==
    CHOOSE r \in
        {LET ones == {i \in 1..Len(a) : a[i] = 1}
         IN  IF ones = {} THEN <<>>
             ELSE SubSeq(a, 1, CHOOSE i \in ones : \A j \in ones : j <= i) :
         a \in {a0}} : TRUE

\* bit i (from 1) of a, 0 beyond its length
BigBit(a, i) == IF i <= Len(a) THEN a[i] ELSE 0

\* a + b
BigAdd(a0, b0) ==
    CHOOSE r \in
        {LET n == IF Len(a) > Len(b) THEN Len(a) ELSE Len(b)
             step(acc, i) ==
                 LET s == BigBit(a, i) + BigBit(b, i) + acc.carry
                 IN  [out |-> Append(acc.out, s % 2), carry |-> s \div 2]
         IN  CHOOSE v \in
                 {IF f.carry = 1 THEN Append(f.out, 1) ELSE f.out :
                  f \in {FoldRange(step, [out |-> <<>>, carry |-> 0], 1, n)}} : TRUE :
         a \in {a0}, b \in {b0}} : TRUE

\* a - b, for a >= b
BigSub(a0, b0) ==
    CHOOSE r \in
        {LET step(acc, i) ==
                 LET d == a[i] - BigBit(b, i) - acc.borrow
                 IN  [out |-> Append(acc.out, d % 2),
                      borrow |-> IF d < 0 THEN 1 ELSE 0]
         IN  BigNorm(FoldRange(step, [out |-> <<>>, borrow |-> 0], 1, Len(a)).out) :
         a \in {a0}, b \in {b0}} : TRUE

\* a < b
BigLess(a0, b0) ==
    \E a \in {a0}, b \in {b0} :
        IF Len(a) # Len(b) THEN Len(a) < Len(b)
        ELSE LET step(less, i) == IF a[i] = b[i] THEN less ELSE a[i] < b[i]
             IN  FoldRange(step, FALSE, 1, Len(a))

\* a * 2^k
BigShl(a0, k) ==
    CHOOSE r \in {IF a = <<>> THEN <<>> ELSE [i \in 1..k |-> 0] \o a : a \in {a0}} : TRUE

\* floor(a / 2^k)
BigShr(a0, k) ==
    CHOOSE r \in {IF k >= Len(a) THEN <<>> ELSE SubSeq(a, k + 1, Len(a)) :
                  a \in {a0}} : TRUE

\* a * b
BigMul(a0, b0) ==
    CHOOSE r \in
        {LET step(acc, i) == IF b[i] = 1 THEN BigAdd(acc, BigShl(a, i - 1)) ELSE acc
         IN  FoldRange(step, <<>>, 1, Len(b)) :
         a \in {a0}, b \in {b0}} : TRUE

\* floor(a / b) and a mod b, for b > 0: long division, highest bit first
BigDivMod(a0, b0) ==
    CHOOSE r \in
        {LET n == Len(a)
             step(acc, j) ==
                 CHOOSE v \in
                     {IF BigLess(r2, b)
                      THEN [quot |-> <<0>> \o acc.quot, rem |-> r2]
                      ELSE [quot |-> <<1>> \o acc.quot, rem |-> BigSub(r2, b)] :
                      r2 \in {BigNorm(<<a[n + 1 - j]>> \o acc.rem)}} : TRUE
         IN  CHOOSE v \in
                 {[quot |-> BigNorm(f.quot), rem |-> f.rem] :
                  f \in {FoldRange(step, [quot |-> <<>>, rem |-> <<>>], 1, n)}} : TRUE :
         a \in {a0}, b \in {b0}} : TRUE

\* The significand of an f64
MantissaBits == 53

F64Zero == [cls |-> "fin", m |-> <<>>, e |-> 0]

F64Inf == [cls |-> "inf", m |-> <<>>, e |-> 0]

F64NaN == [cls |-> "nan", m |-> <<>>, e |-> 0]

\* m * 2^e with m made odd
F64Canon(m0, e) ==
    CHOOSE r \in
        {IF m = <<>> THEN F64Zero
         ELSE LET low == CHOOSE i \in 1..Len(m) :
                             m[i] = 1 /\ \A j \in 1..(i - 1) : m[j] = 0
              IN  [cls |-> "fin", m |-> SubSeq(m, low, Len(m)), e |-> e + low - 1] :
         m \in {m0}} : TRUE

\* m * 2^e rounded to 53 significant bits, to nearest, ties to even
F64Round(m0, e) ==
    CHOOSE r \in
        {IF Len(m) <= MantissaBits THEN F64Canon(m, e)
         ELSE LET d == Len(m) - MantissaBits
                  half == m[d] = 1
                  sticky == \E i \in 1..(d - 1) : m[i] = 1
              IN  CHOOSE v \in
                      {IF half /\ (sticky \/ q[1] = 1)
                       THEN F64Canon(BigAdd(q, <<1>>), e + d)
                       ELSE F64Canon(q, e + d) :
                       q \in {BigShr(m, d)}} : TRUE :
         m \in {m0}} : TRUE

\* n as f64, for a natural number below 2^31
F64FromNat(n) == F64Round(BigFromNat(n), 0)

\* x * y
F64Mul(x0, y0) ==
    CHOOSE r \in
        {IF x.cls = "nan" \/ y.cls = "nan" THEN F64NaN
         ELSE IF x.cls = "inf" \/ y.cls = "inf"
         THEN IF x = F64Zero \/ y = F64Zero THEN F64NaN ELSE F64Inf
         ELSE F64Round(BigMul(x.m, y.m), x.e + y.e) :
         x \in {x0}, y \in {y0}} : TRUE

\* x + y
F64Add(x0, y0) ==
    CHOOSE r \in
        {IF x.cls = "nan" \/ y.cls = "nan" THEN F64NaN
         ELSE IF x.cls = "inf" \/ y.cls = "inf" THEN F64Inf
         ELSE LET e0 == IF x.e < y.e THEN x.e ELSE y.e
              IN  F64Round(BigAdd(BigShl(x.m, x.e - e0), BigShl(y.m, y.e - e0)), e0) :
         x \in {x0}, y \in {y0}} : TRUE

\* x / y
F64Div(x0, y0) ==
    CHOOSE r \in
        {IF x.cls = "nan" \/ y.cls = "nan" THEN F64NaN
         ELSE IF x.cls = "inf" THEN IF y.cls = "inf" THEN F64NaN ELSE F64Inf
         ELSE IF y.cls = "inf" THEN F64Zero
         ELSE IF y = F64Zero THEN IF x = F64Zero THEN F64NaN ELSE F64Inf
         ELSE IF x = F64Zero THEN F64Zero
         ELSE LET k == Len(y.m) + MantissaBits + 2
              IN  CHOOSE v \in
                      {F64Round(<<IF d.rem = <<>> THEN 0 ELSE 1>> \o d.quot,
                                x.e - y.e - k - 1) :
                       d \in {BigDivMod(BigShl(x.m, k), y.m)}} : TRUE :
         x \in {x0}, y \in {y0}} : TRUE

\* The limbs of a u64 in base 10^9, lowest first; zero is <<0>>.
Limb == 1000000000

\* u64::MAX
U64Max == <<709551615, 446744073, 18>>

RECURSIVE LimbsDouble(_, _)
\* 2 * v + carry, on base 10^9 limbs
LimbsDouble(v, carry) ==
    IF v = <<>> THEN IF carry = 0 THEN <<>> ELSE <<carry>>
    ELSE <<(2 * v[1] + carry) % Limb>>
         \o LimbsDouble(Tail(v), (2 * v[1] + carry) \div Limb)

\* the number with the bits a, on base 10^9 limbs
U64FromBig(a0) ==
    CHOOSE r \in
        {LET n == Len(a)
             step(acc, j) == LimbsDouble(acc, a[n + 1 - j])
         IN  IF a = <<>> THEN <<0>> ELSE FoldRange(step, <<>>, 1, n) :
         a \in {a0}} : TRUE

\* a natural number below 2^31 as a u64
U64FromNat(n) == IF n < Limb THEN <<n>> ELSE <<n % Limb, n \div Limb>>

\* x as u64: the float-to-integer cast truncates, saturates, and maps NaN to 0
F64AsU64(x0) ==
    CHOOSE r \in
        {IF x.cls = "nan" THEN <<0>>
         ELSE IF x.cls = "inf" THEN U64Max
         ELSE CHOOSE v \in
                  {IF Len(int) > 64 THEN U64Max ELSE U64FromBig(int) :
                   int \in {IF x.e >= 0 THEN BigShl(x.m, x.e)
                            ELSE BigShr(x.m, -x.e)}} : TRUE :
         x \in {x0}} : TRUE

(***************************************************************************)
(* Track events and Track::new                                             *)
(***************************************************************************)

\* A u32 is its two 16-bit halves [hi, lo].  u32::from of a natural number
\* below 2^31.
U32FromNat(n) == [hi |-> n \div 65536, lo |-> n % 65536]

\* a + b on u32: the sum modulo 2^32 and whether it left the u32 range
U32Add(a, b) ==
    LET lo == a.lo + b.lo
        hi == a.hi + b.hi + lo \div 65536
    IN  [val |-> [hi |-> hi % 65536, lo |-> lo % 65536], overflow |-> hi >= 65536]

\* a < b on u32
U32Less(a, b) == a.hi < b.hi \/ (a.hi = b.hi /\ a.lo < b.lo)

\* the bits of a u32
U32Bits(v) == BigAdd(BigShl(BigFromNat(v.hi), 16), BigFromNat(v.lo))

\* v as f64 (exact: a u32 has at most 32 significant bits)
F64FromU32(v) == F64Round(U32Bits(v), 0)

\* Tempo::default
DefaultTempo == 500000

\* TimeSignature::default
DefaultTimeSignature == "TimeSignature::default"

\* TrackInfo::default (tempo, SMPTE offset, time signature and name)
DefaultTrackInfo ==
    [tempo |-> DefaultTempo, smpte_offset |-> None,
     time_signature |-> DefaultTimeSignature, name |-> None]

\* A channel voice track event with a delta time; id names the message.
ChannelVoiceEvent(delta, id) ==
    [delta_time |-> U32FromNat(delta), event |-> [kind |-> "ChannelVoice", id |-> id]]

\* A system exclusive track event.
SystemExclusiveEvent(delta, id) ==
    [delta_time |-> U32FromNat(delta),
     event |-> [kind |-> "SystemExclusive", id |-> id]]

\* A Tempo meta event (micros per quarter note).
TempoEvent(delta, micros) ==
    [delta_time |-> U32FromNat(delta),
     event |-> [kind |-> "Meta", meta |-> "Tempo", value |-> micros]]

\* A SMPTE offset meta event.
SmpteOffsetEvent(delta, offset) ==
    [delta_time |-> U32FromNat(delta),
     event |-> [kind |-> "Meta", meta |-> "SmpteOffset", value |-> offset]]

\* MetaMessage::adjust_track_info: a meta event overwrites its field of the
\* track info (last write wins).
adjust_track_info(meta, info) ==
    CASE meta.meta = "Tempo" -> [info EXCEPT !.tempo = meta.value]
      [] meta.meta = "SmpteOffset" -> [info EXCEPT !.smpte_offset = Some(meta.value)]
      [] meta.meta = "TimeSignature" -> [info EXCEPT !.time_signature = meta.value]
      [] meta.meta = "TrackName" -> [info EXCEPT !.name = Some(meta.value)]
      [] OTHER -> info

RECURSIVE TrackNewLoopSkippingMeta(_, _, _, _, _, _)
\* A loop that does not add the delta time of a meta event.
TrackNewLoopSkippingMeta(events, i, acc, info, out, ovf) ==
    IF i > Len(events) THEN [info |-> info, events |-> out, overflow |-> ovf]
    ELSE
        LET event == events[i]
            sum == IF IsSome(acc) THEN U32Add(Unwrap(acc), event.delta_time)
                   ELSE [val |-> event.delta_time, overflow |-> FALSE]
        IN  IF event.event.kind = "Meta"
            THEN TrackNewLoopSkippingMeta(events, i + 1, acc,
                                          adjust_track_info(event.event, info), out, ovf)
            ELSE TrackNewLoopSkippingMeta(events, i + 1, Some(sum.val), info,
                                          Append(out, [accumulated_ticks |-> sum.val,
                                                       event |-> event.event]),
                                          ovf \/ sum.overflow)

RECURSIVE TrackNewLoopEmittingMeta(_, _, _, _, _, _)
\* A loop that emits the meta events too.
TrackNewLoopEmittingMeta(events, i, acc, info, out, ovf) ==
    IF i > Len(events) THEN [info |-> info, events |-> out, overflow |-> ovf]
    ELSE
        LET event == events[i]
            sum == IF IsSome(acc) THEN U32Add(Unwrap(acc), event.delta_time)
                   ELSE [val |-> event.delta_time, overflow |-> FALSE]
        IN  TrackNewLoopEmittingMeta(events, i + 1, Some(sum.val),
                                     IF event.event.kind = "Meta"
                                     THEN adjust_track_info(event.event, info) ELSE info,
                                     Append(out, [accumulated_ticks |-> sum.val,
                                                  event |-> event.event]),
                                     ovf \/ sum.overflow)

RECURSIVE TrackNewLoop(_, _, _, _, _, _)
\* The for loop of Track::new over events[i..]: acc is time_accumulated
\* (an Option<u32>), info the TrackInfo so far, out the events emitted so
\* far.  *tick_acc += delta_ticks is a u32 addition: where the sum leaves the
\* u32 range a build with overflow checks panics and a build without them
\* wraps; ovf records that this happened, the values are those of the
\* wrapping build.
TrackNewLoop(events, i, acc, info, out, ovf) ==
    IF i > Len(events) THEN [info |-> info, events |-> out, overflow |-> ovf]
    ELSE
        LET event == events[i]
            delta_ticks == event.delta_time
        IN  CHOOSE r \in
                {IF event.event.kind = "Meta"
                 THEN TrackNewLoop(events, i + 1, Some(sum.val), info2, out,
                                   ovf \/ sum.overflow)
                 ELSE TrackNewLoop(events, i + 1, Some(sum.val), info,
                                   Append(out, [accumulated_ticks |-> sum.val,
                                                event |-> event.event]),
                                   ovf \/ sum.overflow) :
                 sum \in
                    {IF IsSome(acc) THEN U32Add(Unwrap(acc), delta_ticks)
                     ELSE [val |-> delta_ticks, overflow |-> FALSE]},
                 info2 \in
                    {IF event.event.kind = "Meta"
                     THEN adjust_track_info(event.event, info) ELSE info}} : TRUE

\* Whether Track::new adds past u32::MAX on these events: a panic in a build
\* with overflow checks.
TrackNewOverflows(events) ==
    TrackNewLoop(events, 1, None, DefaultTrackInfo, <<>>, FALSE).overflow

\* Track::new, as a build without overflow checks computes it
TrackNew(events) ==
    CHOOSE t \in
        {[info |-> r.info, events |-> r.events] :
         r \in {TrackNewLoop(events, 1, None, DefaultTrackInfo, <<>>, FALSE)}} : TRUE

(***************************************************************************)
(* Timing: Tempo, TicksPerQuarterNote, SmpteFps, SmpteOffset               *)
(***************************************************************************)

\* The u16 of the header with no bit masked off.
TicksUnmasked(inner) == inner[1] * 256 + inner[2]

\* TicksPerQuarterNote::ticks_per_quarter_note: u16::from_be_bytes(inner) & 0x7FFF
ticks_per_quarter_note(inner) == (inner[1] * 256 + inner[2]) % 32768

\* A division that truncates the drop-frame rate to 29.
AsDivisionTruncated(fps) ==
    CASE fps = "TwentyFour" -> 24
      [] fps = "TwentyFive" -> 25
      [] fps = "TwentyNine" -> 29
      [] fps = "Thirty" -> 30

\* SmpteFps::as_division
as_division(fps) ==
    CASE fps = "TwentyFour" -> 24
      [] fps = "TwentyFive" -> 25
      [] fps = "TwentyNine" -> 30
      [] fps = "Thirty" -> 30

\* DROP_FRAME: 30_000. / 1001.
DROP_FRAME == F64Div(F64FromNat(30000), F64FromNat(1001))

\* A frame rate read as its nominal value: 30 for the drop-frame rate.
AsF64Nominal(fps) ==
    CASE fps = "TwentyFour" -> F64FromNat(24)
      [] fps = "TwentyFive" -> F64FromNat(25)
      [] fps = "TwentyNine" -> F64FromNat(30)
      [] fps = "Thirty" -> F64FromNat(30)

\* SmpteFps::as_f64
as_f64(fps) ==
    CASE fps = "TwentyFour" -> F64FromNat(24)
      [] fps = "TwentyFive" -> F64FromNat(25)
      [] fps = "TwentyNine" -> DROP_FRAME
      [] fps = "Thirty" -> F64FromNat(30)

\* SmpteOffset::as_micros_with_override.  The seconds term is a u64 product
\* below 2^53, so its conversion to f64 is exact.
as_micros_with_override(offset, fps) ==
    LET secs == offset.hour * 3600 + offset.minute * 60 + offset.second
        whole == F64Round(BigMul(BigFromNat(secs), BigFromNat(1000000)), 0)
        frames == F64Div(F64FromNat(offset.frame * 1000000), as_f64(fps))
        subframes == F64Div(F64FromNat(offset.subframe * 10000), as_f64(fps))
    IN  F64Add(F64Add(whole, frames), subframes)

\* SmpteOffset::as_micros: the same expression on self.fps
as_micros(offset) ==
    LET secs == offset.hour * 3600 + offset.minute * 60 + offset.second
        whole == F64Round(BigMul(BigFromNat(secs), BigFromNat(1000000)), 0)
        frames == F64Div(F64FromNat(offset.frame * 1000000), as_f64(offset.fps))
        subframes == F64Div(F64FromNat(offset.subframe * 10000), as_f64(offset.fps))
    IN  F64Add(F64Add(whole, frames), subframes)

(***************************************************************************)
(* TimedEventIterator                                                      *)
(***************************************************************************)

\* Format: the tracks of a file in stored order
FormatTracks(fmt) ==
    IF fmt.type = "SingleMultiChannel" THEN <<fmt.track>> ELSE fmt.tracks

\* the micros_per_tick of CurrentTrack::new
MicrosPerTick(timing_, micros_per_quarter_note) ==
    IF timing_.kind = "Smpte"
    THEN LET frames_per_second == as_division(timing_.fps)
             ticks_per_second == frames_per_second * timing_.ticks_per_frame
         IN  F64Div(F64FromNat(1000000), F64FromNat(ticks_per_second))
    ELSE F64Div(F64FromNat(micros_per_quarter_note),
                F64FromNat(ticks_per_quarter_note(timing_.inner)))

\* An offset that is always converted with the frame rate of the offset.
OffsetInMicrosOwnFps(timing_, info) ==
    IF ~IsSome(info.smpte_offset) THEN F64Zero
    ELSE as_micros_with_override(Unwrap(info.smpte_offset),
                                 Unwrap(info.smpte_offset).fps)

\* the offset_in_micros of CurrentTrack::new
OffsetInMicros(timing_, info) ==
    IF ~IsSome(info.smpte_offset) THEN F64Zero
    ELSE IF timing_.kind = "Smpte"
    THEN as_micros_with_override(Unwrap(info.smpte_offset), timing_.fps)
    ELSE as_micros(Unwrap(info.smpte_offset))

\* CurrentTrack::new
CurrentTrackNew(track, file_tempo, timing_) ==
    LET track_tempo == IF IsSome(file_tempo) THEN Unwrap(file_tempo)
                       ELSE track.info.tempo
    IN  [micros_per_tick |-> MicrosPerTick(timing_, track_tempo),
         offset_in_micros |-> OffsetInMicros(timing_, track.info),
         event |-> track.events]

\* the timestamp CurrentTrack::next computes for a tick count
Micros(micros_per_tick, offset_in_micros, tick) ==
    F64AsU64(F64Add(F64Mul(micros_per_tick, F64FromU32(tick)), offset_in_micros))

\* CurrentTrack::next: the item and the CurrentTrack afterwards
CurrentTrackNext(ct) ==
    IF ct.event = <<>> THEN [item |-> None, ct |-> ct]
    ELSE LET event == Head(ct.event)
             tick == event.accumulated_ticks
             micros == Micros(ct.micros_per_tick, ct.offset_in_micros, tick)
         IN  [item |-> Some([timestamp |-> micros, event |-> event.event]),
              ct |-> [ct EXCEPT !.event = Tail(@)]]

\* the number of events of the tracks ts
SizeOf(ts) ==
    LET add(acc, i) == acc + Len(ts[i].events)
    IN  FoldRange(add, 0, 1, Len(ts))

\* An into_events that records no file tempo: every track keeps its own.
IntoEventsOwnTempo(f) ==
    LET fmt == f.format
        mk(size, tracks, next) ==
            [variant |-> "Some",
             len_remaining |-> size,
             timing |-> f.timing,
             tracks |-> tracks,
             cur_track |-> CurrentTrackNew(next, None, f.timing),
             file_tempo |-> None]
    IN  IF fmt.type = "SingleMultiChannel"
        THEN mk(Len(fmt.track.events), <<>>, fmt.track)
        ELSE IF fmt.tracks = <<>> THEN [variant |-> "None"]
        ELSE mk(SizeOf(fmt.tracks), Tail(fmt.tracks), Head(fmt.tracks))

\* TimedEventIterator::new, wrapped as MidiFile::into_events does
into_events(f) ==
    LET fmt == f.format
        mk(size, tracks, next, file_tempo) ==
            [variant |-> "Some",
             len_remaining |-> size,
             timing |-> f.timing,
             tracks |-> tracks,
             cur_track |-> CurrentTrackNew(next, file_tempo, f.timing),
             file_tempo |-> file_tempo]
    IN  CASE fmt.type = "SequentiallyIndependent" ->
                IF fmt.tracks = <<>> THEN [variant |-> "None"]
                ELSE mk(SizeOf(fmt.tracks), Tail(fmt.tracks), Head(fmt.tracks), None)
          [] fmt.type = "Simultaneous" ->
                IF fmt.tracks = <<>> THEN [variant |-> "None"]
                ELSE mk(SizeOf(fmt.tracks), Tail(fmt.tracks), Head(fmt.tracks),
                        Some(Head(fmt.tracks).info.tempo))
          [] fmt.type = "SingleMultiChannel" ->
                mk(Len(fmt.track.events), <<>>, fmt.track, Some(fmt.track.info.tempo))

\* A None arm that takes the remaining track with the earliest first event.
NextFromTracksEarliestFirst(it) ==
    IF it.tracks = <<>> THEN [item |-> None, it |-> it]
    ELSE LET first(t) == IF t.events = <<>> THEN U32FromNat(0)
                         ELSE t.events[1].accumulated_ticks
             n == CHOOSE i \in 1..Len(it.tracks) :
                      \A j \in 1..Len(it.tracks) :
                          \/ U32Less(first(it.tracks[i]), first(it.tracks[j]))
                          \/ first(it.tracks[i]) = first(it.tracks[j]) /\ i <= j
             rest == SubSeq(it.tracks, 1, n - 1)
                     \o SubSeq(it.tracks, n + 1, Len(it.tracks))
             next_ev == CurrentTrackNext(
                            CurrentTrackNew(it.tracks[n], it.file_tempo, it.timing))
         IN  IF ~IsSome(next_ev.item)
             THEN [item |-> None, it |-> [it EXCEPT !.tracks = rest]]
             ELSE [item |-> next_ev.item,
                   it |-> [it EXCEPT !.tracks = rest,
                                     !.len_remaining = @ - 1,
                                     !.cur_track = next_ev.ct]]

\* TimedEventIterator::next, the None arm: the next track is taken
NextFromTracks(it) ==
    IF it.tracks = <<>> THEN [item |-> None, it |-> it]
    ELSE CHOOSE r \in
            {IF ~IsSome(next_ev.item)
             THEN [item |-> None, it |-> [it EXCEPT !.tracks = Tail(@)]]
             ELSE [item |-> next_ev.item,
                   it |-> [it EXCEPT !.tracks = Tail(@),
                                     !.len_remaining = @ - 1,
                                     !.cur_track = next_ev.ct]] :
             next_ev \in
                {CurrentTrackNext(
                    CurrentTrackNew(Head(it.tracks), it.file_tempo, it.timing))}} : TRUE

\* TimedEventIterator::next: the item and the iterator afterwards
TimedEventIteratorNext(it) ==
    CHOOSE r \in
        {IF IsSome(cur.item)
         THEN [item |-> cur.item,
               it |-> [it EXCEPT !.len_remaining = @ - 1, !.cur_track = cur.ct]]
         ELSE NextFromTracks(it) :
         cur \in {CurrentTrackNext(it.cur_track)}} : TRUE

\* OptTimedEventIterator::next
OptNext(it) ==
    IF it.variant = "None" THEN [item |-> None, it |-> it]
    ELSE TimedEventIteratorNext(it)

\* The tracks a file is made of, as in the tests of the projector.
TrackCatalogue ==
    {TrackNew(evs) : evs \in
        {<<>>,
         <<ChannelVoiceEvent(0, 1), ChannelVoiceEvent(480, 2)>>,
         <<ChannelVoiceEvent(240, 3), ChannelVoiceEvent(480, 4)>>,
         <<TempoEvent(0, 600000), ChannelVoiceEvent(0, 5)>>,
         <<TempoEvent(0, 400000), ChannelVoiceEvent(480, 6)>>,
         <<TempoEvent(0, 400000), TempoEvent(0, 600000)>>}}

\* The number of tracks of a Simultaneous or SequentiallyIndependent file.
MaxTracks == 3

\* The calls of next() made after the first None.
MaxCallsAfterNone == 2

\* The header timings of the files.
IterTimings ==
    {[kind |-> "TicksPerQuarterNote", inner |-> <<1, 224>>],
     [kind |-> "Smpte", fps |-> "Thirty", ticks_per_frame |-> 40]}

TrackLists == UNION {[1..n -> TrackCatalogue] : n \in 0..MaxTracks}

\* The files handed to into_events.
IterFiles ==
    {[timing |-> t, format |-> [type |-> ty, tracks |-> ts]] :
        t \in IterTimings, ty \in {"Simultaneous", "SequentiallyIndependent"},
        ts \in TrackLists}
    \cup {[timing |-> t, format |-> [type |-> "SingleMultiChannel", track |-> tr]] :
            t \in IterTimings, tr \in TrackCatalogue}

NoIter == [variant |-> "Unbuilt"]

InitIterWith(files) ==
    /\ file \in files
    /\ iter = NoIter
    /\ results = <<>>

\* file.into_events()
IntoEvents ==
    /\ iter = NoIter
    /\ iter' = into_events(file)
    /\ UNCHANGED <<file, results, varsBuilder, varsReader, varsParse, varsCall>>

\* The number of calls of next() that returned None so far.
NonesIn(rs) == Cardinality({i \in 1..Len(rs) : rs[i] = None})

\* iter.next()
NextCall ==
    /\ iter # NoIter
    /\ NonesIn(results) <= MaxCallsAfterNone
    /\ \E r \in {OptNext(iter)} :
           /\ iter' = r.it
           /\ results' = Append(results, r.item)
    /\ UNCHANGED <<file, varsBuilder, varsReader, varsParse, varsCall>>

NextIter == IntoEvents \/ NextCall

\* The events a track of the timing files is made from.
TimingEvents ==
    {ChannelVoiceEvent(0, 1), ChannelVoiceEvent(99, 2), ChannelVoiceEvent(240, 3),
     ChannelVoiceEvent(480, 4), TempoEvent(0, 600000),
     SmpteOffsetEvent(0, [fps |-> "TwentyNine", hour |-> 23, minute |-> 59,
                          second |-> 59, frame |-> 28, subframe |-> 99])}

\* The number of events of such a track.
MaxTimingEvents == 3

\* Header timings: 480 and 96 ticks per quarter note, 480 with the top bit of
\* the u16 set, and 25 frames of 40 ticks.
TimingTimings ==
    {[kind |-> "TicksPerQuarterNote", inner |-> <<1, 224>>],
     [kind |-> "TicksPerQuarterNote", inner |-> <<0, 96>>],
     [kind |-> "TicksPerQuarterNote", inner |-> <<129, 224>>],
     [kind |-> "Smpte", fps |-> "TwentyFive", ticks_per_frame |-> 40]}

\* The number of events of a long track.
MaxLongTrack == 17

\* Long tracks: every event has the largest delta time that a quantity of
\* four bytes holds, 0x0FFFFFFF; the seventeenth addition passes u32::MAX.
LongTracks ==
    {[i \in 1..n |-> ChannelVoiceEvent(268435455, 7)] :
        n \in (MaxLongTrack - 1)..MaxLongTrack}

\* Single-track files over every short event list and over the long tracks.
TimingFiles ==
    {[timing |-> t, format |-> [type |-> "SingleMultiChannel", track |-> TrackNew(evs)]] :
        t \in TimingTimings,
        evs \in UNION {[1..n -> TimingEvents] : n \in 1..MaxTimingEvents}
                 \cup LongTracks}

\* Header timings of the SMPTE files: 24 frames of 4 ticks, 25, 29.97 and 30
\* frames of 40 ticks, and 480 ticks per quarter note.
SmpteTimings ==
    {[kind |-> "Smpte", fps |-> "TwentyFour", ticks_per_frame |-> 4],
     [kind |-> "Smpte", fps |-> "TwentyFive", ticks_per_frame |-> 40],
     [kind |-> "Smpte", fps |-> "TwentyNine", ticks_per_frame |-> 40],
     [kind |-> "Smpte", fps |-> "Thirty", ticks_per_frame |-> 40],
     [kind |-> "TicksPerQuarterNote", inner |-> <<1, 224>>]}

\* The events a track of the SMPTE files is made from; the SMPTE offset is
\* 01:23:45, frame 12, subframe 34 at 29.97 frames per second.
SmpteEvents ==
    {ChannelVoiceEvent(0, 1), ChannelVoiceEvent(99, 2), ChannelVoiceEvent(600, 3),
     ChannelVoiceEvent(1200, 4), TempoEvent(0, 600000),
     SmpteOffsetEvent(0, [fps |-> "TwentyNine", hour |-> 1, minute |-> 23,
                          second |-> 45, frame |-> 12, subframe |-> 34])}

\* Single-track files over every short list of these events.
SmpteFiles ==
    {[timing |-> t, format |-> [type |-> "SingleMultiChannel", track |-> TrackNew(evs)]] :
        t \in SmpteTimings,
        evs \in UNION {[1..n -> SmpteEvents] : n \in 1..MaxTimingEvents}}

\* The times of day of the SMPTE offsets of the offset files.
OffsetTimes ==
    {[hour |-> 0, minute |-> 0, second |-> 0],
     [hour |-> 0, minute |-> 59, second |-> 1],
     [hour |-> 23, minute |-> 59, second |-> 59]}

\* The SMPTE offsets of the offset files: every frame rate, frames 0, 29 and
\* 255, subframes 0 and 99, and 01:23:45, frame 12, subframe 34 at 29.97.
Offsets ==
    {[fps |-> fps, hour |-> t.hour, minute |-> t.minute, second |-> t.second,
      frame |-> frame, subframe |-> subframe] :
        fps \in {"TwentyFour", "TwentyFive", "TwentyNine", "Thirty"},
        t \in OffsetTimes, frame \in {0, 29, 255}, subframe \in {0, 99}}
    \cup {[fps |-> "TwentyNine", hour |-> 1, minute |-> 23, second |-> 45,
           frame |-> 12, subframe |-> 34]}

\* Single-track files of a SMPTE offset and a note, under every timing.
OffsetFiles ==
    {[timing |-> t,
      format |-> [type |-> "SingleMultiChannel",
                  track |-> TrackNew(<<SmpteOffsetEvent(0, o), ChannelVoiceEvent(0, 1)>>)]] :
        t \in SmpteTimings, o \in Offsets}

(***************************************************************************)
(* Properties of the projector                                             *)
(***************************************************************************)

\* the items next() returned so far, the Nones left out
Yielded == SelectSeq(results, IsSome)

RECURSIVE FlatFrom(_, _)
\* the events of the tracks ts[i..], track after track, each with its track
FlatFrom(ts, i) ==
    IF i > Len(ts) THEN <<>>
    ELSE [k \in 1..Len(ts[i].events) |-> [track |-> i, ev |-> ts[i].events[k]]]
         \o FlatFrom(ts, i + 1)

\* the events of the file, track after track in stored order
Flattened == FlatFrom(FormatTracks(file.format), 1)

\* C2 as stated: when next() first returns None, exactly the events of all
\* tracks were yielded before it (none at all for a file without tracks).
C2_AllEventsBeforeFirstNone ==
    \A n \in 1..Len(results) :
        (results[n] = None /\ \A j \in 1..(n - 1) : results[j] # None)
            => n - 1 = Len(Flattened)

\* the tempo the cross-track rule names for track i of file f
RuleTempo(f, i) ==
    IF f.format.type = "SequentiallyIndependent"
    THEN FormatTracks(f.format)[i].info.tempo
    ELSE FormatTracks(f.format)[1].info.tempo

\* C35: the iterator of into_events is fused: once next has returned None,
\* every later call of next returns None, for every file, those with empty
\* tracks between tracks with events too.
C35_Fused ==
    \A i \in 1..Len(results) : \A j \in i..Len(results) :
        results[i] = None => results[j] = None

\* C3: every yielded timestamp is the one computed with the tempo of the
\* first track in a SingleMultiChannel or Simultaneous file, and with the
\* tempo of the event's own track in a SequentiallyIndependent file.
C3_CrossTrackTempo ==
    \A k \in 1..Len(Yielded) :
        /\ k <= Len(Flattened)
        /\ LET e == Flattened[k]
               own == FormatTracks(file.format)[e.track]
           IN  Unwrap(Yielded[k]).timestamp =
                   Micros(MicrosPerTick(file.timing, RuleTempo(file, e.track)),
                          OffsetInMicros(file.timing, own.info),
                          e.ev.accumulated_ticks)

\* C3 witness: a Simultaneous file under 480 ticks per quarter note whose
\* first track declares 600,000 and whose second declares 400,000; the event
\* of the second track at tick 480 was yielded at 600,000.
C3_Witness ==
    /\ iter # NoIter
    /\ file.format.type = "Simultaneous"
    /\ file.timing.kind = "TicksPerQuarterNote"
    /\ Len(file.format.tracks) = 2
    /\ file.format.tracks[1].info.tempo = 600000
    /\ file.format.tracks[2].info.tempo = 400000
    /\ Len(Yielded) = 2
    /\ Unwrap(Yielded[1]).timestamp = <<0>>
    /\ Unwrap(Yielded[2]).timestamp = <<600000>>

\* C4: the yielded events are, in order, the events of the first track, then
\* those of the second, and so on: a prefix of the concatenation of the
\* tracks, whatever their timestamps.
C4_ConcatenatedNotMerged ==
    /\ Len(Yielded) <= Len(Flattened)
    /\ \A k \in 1..Len(Yielded) :
          Unwrap(Yielded[k]).event = Flattened[k].ev.event

\* C4 witness: two tracks with timestamps [0, 500000] and [250000, 750000]
\* were yielded as [0, 500000, 250000, 750000].
C4_Witness ==
    /\ iter # NoIter
    /\ file.format.type = "Simultaneous"
    /\ Len(file.format.tracks) = 2
    /\ [k \in 1..Len(Yielded) |-> Unwrap(Yielded[k]).timestamp]
          = << <<0>>, <<500000>>, <<250000>>, <<750000>> >>

\* floor(tempo * ticks / tpqn + offset) for an f64 offset, in exact arithmetic
ExactMicros(tempo, ticks, tpqn, offset) ==
    LET s == IF offset.e < 0 THEN -offset.e ELSE 0
        m == IF offset.e < 0 THEN offset.m ELSE BigShl(offset.m, offset.e)
        num == BigAdd(BigShl(BigMul(BigFromNat(tempo), U32Bits(ticks)), s),
                      BigMul(m, BigFromNat(tpqn)))
    IN  BigDivMod(num, BigShl(BigFromNat(tpqn), s)).quot

\* the exact value for the k-th yielded event of a single-track file
ExactOfYielded(k) ==
    LET track == file.format.track
        u16 == file.timing.inner[1] * 256 + file.timing.inner[2]
    IN  ExactMicros(track.info.tempo, track.events[k].accumulated_ticks,
                    IF u16 >= 32768 THEN u16 - 32768 ELSE u16,
                    OffsetInMicros(file.timing, track.info))

U64LessEq(a, b) ==
    IF Len(a) # Len(b) THEN Len(a) < Len(b)
    ELSE \A i \in 1..Len(a) :
            (\A j \in (i + 1)..Len(a) : a[j] = b[j]) => a[i] <= b[i]

\* the timestamps yielded so far
Timestamps == [k \in 1..Len(Yielded) |-> Unwrap(Yielded[k]).timestamp]

\* C13 as stated: the timestamps yielded for a track never decrease, whatever
\* the delta times of the track.
C13_MonotonicTimestamps ==
    iter # NoIter =>
        \A k \in 1..(Len(Timestamps) - 1) :
            U64LessEq(Timestamps[k], Timestamps[k + 1])

\* Where the accumulated ticks of two successive events of a track do not
\* decrease, neither do their timestamps.
MonotonicInTicks ==
    iter # NoIter =>
        \A k \in 1..(Len(Timestamps) - 1) :
            ~U32Less(file.format.track.events[k + 1].accumulated_ticks,
                     file.format.track.events[k].accumulated_ticks)
                => U64LessEq(Timestamps[k], Timestamps[k + 1])

\* the frames per second the SMPTE rule names for a header frame rate
NominalFps(fps) ==
    CASE fps = "TwentyFour" -> 24
      [] fps = "TwentyFive" -> 25
      [] fps = "TwentyNine" -> 30
      [] fps = "Thirty" -> 30

\* floor(1,000,000 * ticks / (nominal_fps * ticks_per_frame) + offset) for
\* the k-th yielded event of a single-track file under SMPTE timing
SmpteExactOfYielded(k) ==
    LET track == file.format.track
    IN  ExactMicros(1000000, track.events[k].accumulated_ticks,
                    NominalFps(file.timing.fps) * file.timing.ticks_per_frame,
                    OffsetInMicros(file.timing, track.info))

\* C14 as stated: under Smpte timing every yielded timestamp is
\* floor(1,000,000 * accumulated_ticks / (nominal_fps * ticks_per_frame)
\* + offset_in_micros), whatever the tempo of the track.
C14_SmpteExactFloor ==
    (iter # NoIter /\ file.timing.kind = "Smpte") =>
        \A k \in 1..Len(Yielded) :
            Unwrap(Yielded[k]).timestamp = U64FromBig(SmpteExactOfYielded(k))

\* C14 amended: the timestamp is computed in f64 (1,000,000 divided by the
\* ticks per second rounded, its product with the ticks rounded, the sum with
\* the offset rounded, then truncated), so it is that floor or differs from
\* it by one microsecond; the tempo of the track does not enter it.
C14_SmpteFloorWithinOne ==
    (iter # NoIter /\ file.timing.kind = "Smpte") =>
        \A k \in 1..Len(Yielded) :
            \E q \in {SmpteExactOfYielded(k)} :
                Unwrap(Yielded[k]).timestamp \in
                    {U64FromBig(q), U64FromBig(BigAdd(q, <<1>>))}
                    \cup (IF q = <<>> THEN {} ELSE {U64FromBig(BigSub(q, <<1>>))})

\* C14 witness: 30 frames of 40 ticks and deltas [0, 1200, 600] gave the
\* timestamps [0, 1000000, 1500000].
C14_Witness ==
    /\ iter # NoIter
    /\ file.timing = [kind |-> "Smpte", fps |-> "Thirty", ticks_per_frame |-> 40]
    /\ [k \in 1..Len(file.format.track.events) |->
            file.format.track.events[k].accumulated_ticks]
          = <<U32FromNat(0), U32FromNat(1200), U32FromNat(1800)>>
    /\ Timestamps = << <<0>>, <<1000000>>, <<1500000>> >>

\* the base offset the rule names for a track info under a header timing
RuleOffset(timing_, info) ==
    IF info.smpte_offset = None THEN F64Zero
    ELSE IF timing_.kind = "Smpte"
    THEN as_micros_with_override(Unwrap(info.smpte_offset), timing_.fps)
    ELSE as_micros_with_override(Unwrap(info.smpte_offset),
                                 Unwrap(info.smpte_offset).fps)

\* C15: the base offset of the track is 0 without a SMPTE offset meta event,
\* the SMPTE offset converted with the header's frame rate under Smpte timing
\* and with its own frame rate under TicksPerQuarterNote timing; it is added
\* to every timestamp, and every call of next() returns an event or None.
C15_BaseOffset ==
    (iter # NoIter /\ iter.variant = "Some") =>
        /\ iter.cur_track.offset_in_micros
              = RuleOffset(file.timing, file.format.track.info)
        /\ \A k \in 1..Len(Yielded) :
              Unwrap(Yielded[k]).timestamp =
                  Micros(MicrosPerTick(file.timing, file.format.track.info.tempo),
                         RuleOffset(file.timing, file.format.track.info),
                         file.format.track.events[k].accumulated_ticks)

\* C15 witness: a track with a SMPTE offset at 29.97 frames per second in a
\* file of 25 frames per second; its event at tick 0 was yielded at the
\* offset converted with 25 frames per second, which is not the offset
\* converted with its own rate.
C15_Witness ==
    /\ iter # NoIter
    /\ file.timing.kind = "Smpte" /\ file.timing.fps = "TwentyFive"
    /\ IsSome(file.format.track.info.smpte_offset)
    /\ Unwrap(file.format.track.info.smpte_offset).fps = "TwentyNine"
    /\ Len(Yielded) >= 1
    /\ file.format.track.events[1].accumulated_ticks = U32FromNat(0)
    /\ Timestamps[1] = F64AsU64(as_micros_with_override(
                            Unwrap(file.format.track.info.smpte_offset), "TwentyFive"))
    /\ Timestamps[1] # F64AsU64(as_micros(Unwrap(file.format.track.info.smpte_offset)))

\* a frame rate as the fraction num / den
FpsFraction(fps) ==
    CASE fps = "TwentyFour" -> [num |-> 24, den |-> 1]
      [] fps = "TwentyFive" -> [num |-> 25, den |-> 1]
      [] fps = "TwentyNine" -> [num |-> 30000, den |-> 1001]
      [] fps = "Thirty" -> [num |-> 30, den |-> 1]

\* (hour * 3600 + minute * 60 + second) * 1,000,000 + frame * 1,000,000 / fps
\* + subframe * 10,000 / fps as the fraction num / den of natural numbers
FormulaMicros(offset, fps) ==
    LET secs == offset.hour * 3600 + offset.minute * 60 + offset.second
        fraction == FpsFraction(fps)
        parts == offset.frame * 1000000 + offset.subframe * 10000
    IN  [num |-> BigAdd(BigMul(BigMul(BigFromNat(secs), BigFromNat(1000000)),
                               BigFromNat(fraction.num)),
                        BigMul(BigFromNat(parts), BigFromNat(fraction.den))),
         den |-> BigFromNat(fraction.num)]

\* |a - b|
BigAbsDiff(a, b) == IF BigLess(a, b) THEN BigSub(b, a) ELSE BigSub(a, b)

\* the f64 x is the fraction q but for the rounding of the float operations:
\* |x - q| <= 2^-10
IsF64Of(x, q) ==
    /\ x.cls = "fin"
    /\ \E k \in {IF x.e < 0 THEN 0 - x.e ELSE 0} :
          ~BigLess(BigShl(q.den, k),
                   BigShl(BigAbsDiff(BigShl(BigMul(x.m, q.den), x.e + k),
                                     BigShl(q.num, k)),
                          10))

\* the SMPTE offset of the file's track
TrackOffset == Unwrap(file.format.track.info.smpte_offset)

\* C20: as_micros is the f64 of (hour * 3600 + minute * 60 + second) *
\* 1,000,000 + frame * 1,000,000 / fps + subframe * 10,000 / fps with fps 24,
\* 25, 30000/1001 or 30; as_micros_with_override(f) is the f64 of the same
\* formula with f, is as_micros() when f is the offset's own frame rate, and
\* differs from frame rate to frame rate by the frame and subframe terms
\* only.  The offset of the track is one of these values.
C20_OffsetMicros ==
    (iter # NoIter /\ iter.variant = "Some") =>
        \E o \in {TrackOffset} :
            /\ IsF64Of(as_micros(o), FormulaMicros(o, o.fps))
            /\ as_micros_with_override(o, o.fps) = as_micros(o)
            /\ \A f \in {"TwentyFour", "TwentyFive", "TwentyNine", "Thirty"} :
                  /\ IsF64Of(as_micros_with_override(o, f), FormulaMicros(o, f))
                  /\ (o.frame = 0 /\ o.subframe = 0) =>
                        as_micros_with_override(o, f) = as_micros(o)
            /\ iter.cur_track.offset_in_micros =
                  IF file.timing.kind = "Smpte"
                  THEN as_micros_with_override(o, file.timing.fps)
                  ELSE as_micros(o)

\* C20 witness: the offset 01:23:45, frame 12, subframe 34 at 29.97 frames
\* per second in a file of ticks per quarter note is 5,025,411,744.67
\* microseconds (5,025,411,333.33 at 30 frames per second), and its event
\* was yielded at 5,025,411,744.
C20_Witness ==
    /\ iter # NoIter /\ iter.variant = "Some"
    /\ file.timing.kind = "TicksPerQuarterNote"
    /\ TrackOffset = [fps |-> "TwentyNine", hour |-> 1, minute |-> 23, second |-> 45,
                      frame |-> 12, subframe |-> 34]
    /\ F64AsU64(iter.cur_track.offset_in_micros) = <<25411744, 5>>
    /\ F64AsU64(as_micros_with_override(TrackOffset, "Thirty")) = <<25411333, 5>>
    /\ Len(Yielded) >= 1
    /\ Unwrap(Yielded[1]).timestamp = <<25411744, 5>>

(***************************************************************************)
(* MidiFileBuilder                                                         *)
(***************************************************************************)

\* The number of chunks one builder is fed.
MaxChunks == 4

\* RawFormat values: format 0, and formats 1 and 2 with a declared count of
\* two tracks (the builder never reads the count).
RawFormats ==
    {[type |-> "SingleMultiChannel"]}
    \cup {[type |-> t, num_tracks |-> <<0, 2>>] :
            t \in {"Simultaneous", "SequentiallyIndependent"}}

\* RawFormat::format_type
format_type(raw) == raw.type

\* Header timings fed to the builder.
BuilderTimings ==
    {[kind |-> "TicksPerQuarterNote", inner |-> <<1, 224>>],
     [kind |-> "Smpte", fps |-> "Thirty", ticks_per_frame |-> 40]}

\* The track bodies fed to the builder, as the events they decode to.
BuilderTrackBodies ==
    {<<TempoEvent(0, 600000), ChannelVoiceEvent(0, 1)>>,
     <<ChannelVoiceEvent(240, 2), ChannelVoiceEvent(480, 3)>>}

\* ChunkEvent values
ChunkEvents ==
    {[kind |-> "Header", format |-> f, timing |-> t] :
        f \in RawFormats, t \in BuilderTimings}
    \cup {[kind |-> "Track", ok |-> TRUE, events |-> b] : b \in BuilderTrackBodies}
    \cup {[kind |-> "Track", ok |-> FALSE]}
    \cup {[kind |-> "Unknown", data |-> <<1, 2>>]}
    \cup {[kind |-> "Eof"]}

\* The builder's fields as one value.
BuilderState(f, t, u) == [format |-> f, timing |-> t, unknown_chunks |-> u]

Ok(b) == [result |-> "Ok", builder |-> b]

Err(e, b) == [result |-> e, builder |-> b]

\* A KnownTracks resolution that keeps the tracks latest first.
HeaderOnKnownTracksReversed(b, h) ==
    LET tracks == [i \in 1..Len(b.format.tracks) |->
                      b.format.tracks[Len(b.format.tracks) + 1 - i]]
        set(fmt) == Ok([b EXCEPT !.format = [stage |-> "Formatted", format |-> fmt],
                                 !.timing = Some(h.timing)])
    IN  CASE format_type(h.format) = "Simultaneous" ->
                set([type |-> "Simultaneous", tracks |-> tracks])
          [] format_type(h.format) = "SingleMultiChannel" ->
                IF Len(tracks) # 1
                THEN Err("MultipleTracksForSingleMultiChannel", b)
                ELSE set([type |-> "SingleMultiChannel", track |-> tracks[1]])
          [] format_type(h.format) = "SequentiallyIndependent" ->
                set([type |-> "SequentiallyIndependent", tracks |-> tracks])

\* A KnownTracks resolution that records the timing before it looks at the
\* format type.
HeaderOnKnownTracksTimingFirst(b, h) ==
    LET tracks == b.format.tracks
        timed == [b EXCEPT !.timing = Some(h.timing)]
        set(fmt) == Ok([timed EXCEPT !.format = [stage |-> "Formatted", format |-> fmt]])
    IN  CASE format_type(h.format) = "Simultaneous" ->
                set([type |-> "Simultaneous", tracks |-> tracks])
          [] format_type(h.format) = "SingleMultiChannel" ->
                IF Len(tracks) # 1
                THEN Err("MultipleTracksForSingleMultiChannel", timed)
                ELSE set([type |-> "SingleMultiChannel", track |-> tracks[1]])
          [] format_type(h.format) = "SequentiallyIndependent" ->
                set([type |-> "SequentiallyIndependent", tracks |-> tracks])

\* A KnownTracks resolution that holds the tracks against the count the
\* header declares.
HeaderOnKnownTracksCounted(b, h) ==
    LET tracks == b.format.tracks
        set(fmt) == Ok([b EXCEPT !.format = [stage |-> "Formatted", format |-> fmt],
                                 !.timing = Some(h.timing)])
        counted(fmt) == IF Len(tracks) # h.format.num_tracks[1] * 256 + h.format.num_tracks[2]
                        THEN Err("TrackCount", b)
                        ELSE set(fmt)
    IN  CASE format_type(h.format) = "Simultaneous" ->
                counted([type |-> "Simultaneous", tracks |-> tracks])
          [] format_type(h.format) = "SingleMultiChannel" ->
                IF Len(tracks) # 1
                THEN Err("MultipleTracksForSingleMultiChannel", b)
                ELSE set([type |-> "SingleMultiChannel", track |-> tracks[1]])
          [] format_type(h.format) = "SequentiallyIndependent" ->
                counted([type |-> "SequentiallyIndependent", tracks |-> tracks])

\* handle_chunk, Header arm, stage KnownTracks
HeaderOnKnownTracks(b, h) ==
    LET tracks == b.format.tracks
        set(fmt) == Ok([b EXCEPT !.format = [stage |-> "Formatted", format |-> fmt],
                                 !.timing = Some(h.timing)])
    IN  CASE format_type(h.format) = "Simultaneous" ->
                set([type |-> "Simultaneous", tracks |-> tracks])
          [] format_type(h.format) = "SingleMultiChannel" ->
                IF Len(tracks) # 1
                THEN Err("MultipleTracksForSingleMultiChannel", b)
                ELSE set([type |-> "SingleMultiChannel", track |-> tracks[1]])
          [] format_type(h.format) = "SequentiallyIndependent" ->
                set([type |-> "SequentiallyIndependent", tracks |-> tracks])

\* A Header arm that does not look at the recorded timing.
HandleHeaderIgnoringTiming(b, h) ==
    CASE b.format.stage = "Unknown" ->
            Ok([b EXCEPT !.format = [stage |-> "KnownFormat", raw |-> h.format],
                         !.timing = Some(h.timing)])
      [] b.format.stage \in {"KnownFormat", "Formatted"} ->
            Err("DuplicateFormat", b)
      [] b.format.stage = "KnownTracks" -> HeaderOnKnownTracks(b, h)

\* A Header arm that lets a Formatted builder take the timing of a later
\* header.
HandleHeaderOverwriting(b, h) ==
    IF b.format.stage = "Formatted" THEN Ok([b EXCEPT !.timing = Some(h.timing)])
    ELSE IF IsSome(b.timing) THEN Err("DuplicateHeader", b)
    ELSE CASE b.format.stage = "Unknown" ->
                Ok([b EXCEPT !.format = [stage |-> "KnownFormat", raw |-> h.format],
                             !.timing = Some(h.timing)])
           [] b.format.stage = "KnownFormat" -> Err("DuplicateFormat", b)
           [] b.format.stage = "KnownTracks" -> HeaderOnKnownTracks(b, h)

\* handle_chunk, Header arm
HandleHeader(b, h) ==
    IF IsSome(b.timing) THEN Err("DuplicateHeader", b)
    ELSE CASE b.format.stage = "Unknown" ->
                Ok([b EXCEPT !.format = [stage |-> "KnownFormat", raw |-> h.format],
                             !.timing = Some(h.timing)])
           [] b.format.stage \in {"KnownFormat", "Formatted"} ->
                Err("DuplicateFormat", b)
           [] b.format.stage = "KnownTracks" -> HeaderOnKnownTracks(b, h)

\* A Track arm that lets a Formatted format-0 file take the new track.
HandleTrackReplacing(b, track) ==
    CASE b.format.stage = "Unknown" ->
            Ok([b EXCEPT !.format = [stage |-> "KnownTracks", tracks |-> <<track>>]])
      [] b.format.stage = "KnownFormat" ->
            LET t == format_type(b.format.raw)
                fmt == IF t = "SingleMultiChannel"
                       THEN [type |-> t, track |-> track]
                       ELSE [type |-> t, tracks |-> <<track>>]
            IN  Ok([b EXCEPT !.format = [stage |-> "Formatted", format |-> fmt]])
      [] b.format.stage = "KnownTracks" ->
            Ok([b EXCEPT !.format.tracks = Append(@, track)])
      [] b.format.stage = "Formatted" ->
            IF b.format.format.type = "SingleMultiChannel"
            THEN Ok([b EXCEPT !.format.format.track = track])
            ELSE Ok([b EXCEPT !.format.format.tracks = Append(@, track)])

\* A Track arm that puts a track first in the tracks of a Formatted file.
HandleTrackPrepending(b, track) ==
    CASE b.format.stage = "Unknown" ->
            Ok([b EXCEPT !.format = [stage |-> "KnownTracks", tracks |-> <<track>>]])
      [] b.format.stage = "KnownFormat" ->
            LET t == format_type(b.format.raw)
                fmt == IF t = "SingleMultiChannel"
                       THEN [type |-> t, track |-> track]
                       ELSE [type |-> t, tracks |-> <<track>>]
            IN  Ok([b EXCEPT !.format = [stage |-> "Formatted", format |-> fmt]])
      [] b.format.stage = "KnownTracks" ->
            Ok([b EXCEPT !.format.tracks = Append(@, track)])
      [] b.format.stage = "Formatted" ->
            IF b.format.format.type = "SingleMultiChannel"
            THEN Err("MultipleTracksForSingleMultiChannel", b)
            ELSE Ok([b EXCEPT !.format.format.tracks = <<track>> \o @])

\* handle_chunk, Track arm, after the body decoded to a track
HandleTrack(b, track) ==
    CASE b.format.stage = "Unknown" ->
            Ok([b EXCEPT !.format = [stage |-> "KnownTracks", tracks |-> <<track>>]])
      [] b.format.stage = "KnownFormat" ->
            LET t == format_type(b.format.raw)
                fmt == IF t = "SingleMultiChannel"
                       THEN [type |-> t, track |-> track]
                       ELSE [type |-> t, tracks |-> <<track>>]
            IN  Ok([b EXCEPT !.format = [stage |-> "Formatted", format |-> fmt]])
      [] b.format.stage = "KnownTracks" ->
            Ok([b EXCEPT !.format.tracks = Append(@, track)])
      [] b.format.stage = "Formatted" ->
            IF b.format.format.type = "SingleMultiChannel"
            THEN Err("MultipleTracksForSingleMultiChannel", b)
            ELSE Ok([b EXCEPT !.format.format.tracks = Append(@, track)])

\* A handle_chunk whose Unknown arm keeps the latest chunk only.
HandleChunkKeepingLastUnknown(b, chunk) ==
    CASE chunk.kind = "Header" -> HandleHeader(b, chunk)
      [] chunk.kind = "Track" ->
            IF ~chunk.ok THEN Err("TrackDecode", b)
            ELSE HandleTrack(b, TrackNew(chunk.events))
      [] chunk.kind = "Unknown" ->
            Ok([b EXCEPT !.unknown_chunks = <<chunk.data>>])
      [] chunk.kind = "Eof" -> Err("Eof", b)

\* MidiFileBuilder::handle_chunk: the result and the builder afterwards
handle_chunk(b, chunk) ==
    CASE chunk.kind = "Header" -> HandleHeader(b, chunk)
      [] chunk.kind = "Track" ->
            IF ~chunk.ok THEN Err("TrackDecode", b)
            ELSE HandleTrack(b, TrackNew(chunk.events))
      [] chunk.kind = "Unknown" ->
            Ok([b EXCEPT !.unknown_chunks = Append(@, chunk.data)])
      [] chunk.kind = "Eof" -> Err("Eof", b)

\* A build that takes a KnownFormat stage for a file without tracks.
BuildFromKnownFormat(b) ==
    IF b.format.stage = "KnownFormat" /\ IsSome(b.timing)
    THEN [result |-> "Ok",
          file |-> [format |-> [type |-> format_type(b.format.raw), tracks |-> <<>>],
                    timing |-> Unwrap(b.timing)]]
    ELSE IF b.format.stage # "Formatted" THEN [result |-> "NoFormat"]
    ELSE IF ~IsSome(b.timing) THEN [result |-> "NoTiming"]
    ELSE [result |-> "Ok",
          file |-> [format |-> b.format.format, timing |-> Unwrap(b.timing)]]

\* A build that looks for the timing before it looks at the stage.
BuildTimingFirst(b) ==
    IF ~IsSome(b.timing) THEN [result |-> "NoTiming"]
    ELSE IF b.format.stage # "Formatted" THEN [result |-> "NoFormat"]
    ELSE [result |-> "Ok",
          file |-> [format |-> b.format.format, timing |-> Unwrap(b.timing)]]

\* MidiFileBuilder::build
build(b) ==
    IF b.format.stage # "Formatted" THEN [result |-> "NoFormat"]
    ELSE IF ~IsSome(b.timing) THEN [result |-> "NoTiming"]
    ELSE [result |-> "Ok",
          file |-> [format |-> b.format.format, timing |-> Unwrap(b.timing)]]

\* MidiFileBuilder::default
InitBuilder ==
    /\ format = [stage |-> "Unknown"]
    /\ timing = None
    /\ unknown_chunks = <<>>
    /\ handled = <<>>
    /\ built = None

\* One call of handle_chunk on the builder.
HandleChunk(chunk) ==
    /\ built = None
    /\ Len(handled) < MaxChunks
    /\ \E r \in {handle_chunk(BuilderState(format, timing, unknown_chunks), chunk)} :
           /\ format' = r.builder.format
           /\ timing' = r.builder.timing
           /\ unknown_chunks' = r.builder.unknown_chunks
           /\ handled' = Append(handled, [chunk |-> chunk, result |-> r.result])
    /\ UNCHANGED <<built, varsIter, varsReader, varsParse, varsCall>>

\* The call of build, which consumes the builder.
Build ==
    /\ built = None
    /\ built' = Some(build(BuilderState(format, timing, unknown_chunks)))
    /\ UNCHANGED <<format, timing, unknown_chunks, handled, varsIter, varsReader, varsParse,
                   varsCall>>

NextBuilder ==
    \/ \E chunk \in ChunkEvents : HandleChunk(chunk)
    \/ Build

\* the builder state in the current state
Builder == BuilderState(format, timing, unknown_chunks)

\* the entry a call of handle_chunk adds to the history
LastHandled == handled[Len(handled)]

\* Builder values of every stage, with and without a recorded timing: the
\* domain of handle_chunk, wider than the states a builder reaches.
BuilderValues ==
    LET tracks == {TrackNew(b) : b \in BuilderTrackBodies}
        lists == UNION {[1..n -> tracks] : n \in 1..2}
        formats == {[type |-> "SingleMultiChannel", track |-> t] : t \in tracks}
                   \cup {[type |-> ty, tracks |-> l] :
                           ty \in {"Simultaneous", "SequentiallyIndependent"},
                           l \in lists}
        stages == {[stage |-> "Unknown"]}
                  \cup {[stage |-> "KnownFormat", raw |-> r] : r \in RawFormats}
                  \cup {[stage |-> "KnownTracks", tracks |-> l] : l \in lists}
                  \cup {[stage |-> "Formatted", format |-> f] : f \in formats}
    IN  {BuilderState(st, t, u) :
            st \in stages,
            t \in {None} \cup {Some(x) : x \in BuilderTimings},
            u \in {<<>>, <<<<1, 2>>>>}}

Headers == {c \in ChunkEvents : c.kind = "Header"}

\* C9, on one call: a Header chunk given to a builder b
HeaderRejected(b, h) ==
    LET r == handle_chunk(b, h)
    IN  /\ IsSome(b.timing) => r = Err("DuplicateHeader", b)
        /\ (~IsSome(b.timing) /\ b.format.stage \in {"KnownFormat", "Formatted"})
              => r = Err("DuplicateFormat", b)

\* the calls of handle_chunk so far that accepted a Header chunk
AcceptedHeaders ==
    {i \in 1..Len(handled) :
        handled[i].chunk.kind = "Header" /\ handled[i].result = "Ok"}

\* C9: handle_chunk on a Header chunk fails with DuplicateHeader whenever a
\* timing is already recorded, and otherwise with DuplicateFormat when the
\* stage is KnownFormat or Formatted; either failure leaves stage, timing and
\* unknown chunks as they were, and at most one Header chunk is ever accepted.
\* The first conjunct states the two failures for every builder value, the
\* second for every call a builder receives.
C9_DuplicateHeaderRejected ==
    /\ \A b \in BuilderValues, h \in Headers : HeaderRejected(b, h)
    /\ [][(handled' # handled /\ LastHandled'.chunk.kind = "Header") =>
            /\ IsSome(timing) => LastHandled'.result = "DuplicateHeader"
            /\ (~IsSome(timing) /\ format.stage \in {"KnownFormat", "Formatted"})
                  => LastHandled'.result = "DuplicateFormat"
            /\ LastHandled'.result \in {"DuplicateHeader", "DuplicateFormat"}
                  => UNCHANGED <<format, timing, unknown_chunks>>
            /\ LastHandled'.result = "Ok" =>
                  /\ AcceptedHeaders = {}
                  /\ timing' = Some(LastHandled'.chunk.timing)
            /\ Cardinality(AcceptedHeaders') <= 1]_vars

\* C9 witness: a second Header chunk was rejected with DuplicateHeader after a
\* first one was accepted.
C9_Witness ==
    \E i, j \in 1..Len(handled) :
        /\ i < j
        /\ handled[i].chunk.kind = "Header" /\ handled[i].result = "Ok"
        /\ handled[j].chunk.kind = "Header"
        /\ handled[j].result = "DuplicateHeader"
        /\ timing = Some(handled[i].chunk.timing)

\* the calls of handle_chunk so far that accepted a Track chunk
AcceptedTracks ==
    {i \in 1..Len(handled) :
        handled[i].chunk.kind = "Track" /\ handled[i].result = "Ok"}

HandledHeaders == {i \in 1..Len(handled) : handled[i].chunk.kind = "Header"}

\* C11: build fails with NoFormat whenever the stage is not Formatted
\* (Unknown, KnownTracks and KnownFormat alike); on a Formatted stage it
\* returns the file made of the stage's format and of the timing of the one
\* Header chunk that was accepted.
C11_BuildNeedsFormatted ==
    IsSome(built) =>
        IF format.stage # "Formatted"
        THEN Unwrap(built) = [result |-> "NoFormat"]
        ELSE /\ Unwrap(built).result = "Ok"
             /\ Unwrap(built).file.format = format.format
             /\ \E i \in AcceptedHeaders :
                    Unwrap(built).file.timing = handled[i].chunk.timing

\* C11 witness: build was called on a builder that accepted a Header chunk
\* and never received a Track chunk, and failed with NoFormat.
C11_Witness ==
    /\ IsSome(built)
    /\ format.stage = "KnownFormat"
    /\ AcceptedHeaders # {}
    /\ \A i \in 1..Len(handled) : handled[i].chunk.kind # "Track"
    /\ Unwrap(built).result = "NoFormat"

\* C12 as stated: build fails with NoTiming when no Header chunk was ever
\* handled.
C12_NoTimingWithoutHeader ==
    (IsSome(built) /\ HandledHeaders = {}) => Unwrap(built).result = "NoTiming"

\* C12 amended: when no Header chunk was ever handled the stage is Unknown
\* or KnownTracks, and build fails with NoFormat; no builder that is fed
\* chunks makes build fail with NoTiming.
C12_NoFormatWithoutHeader ==
    IsSome(built) =>
        /\ HandledHeaders = {} =>
              /\ format.stage \in {"Unknown", "KnownTracks"}
              /\ Unwrap(built).result = "NoFormat"
        /\ Unwrap(built).result # "NoTiming"

\* C12 witness: build was called after Track and Unknown chunks only.
C12_Witness ==
    /\ IsSome(built)
    /\ HandledHeaders = {}
    /\ \E i, j \in 1..Len(handled) :
          /\ handled[i].chunk.kind = "Track" /\ handled[i].result = "Ok"
          /\ handled[j].chunk.kind = "Unknown" /\ handled[j].result = "Ok"
    /\ Unwrap(built).result = "NoFormat"

\* the tracks of the Track chunks accepted so far, in arrival order
AcceptedTrackList ==
    LET accepted == SelectSeq(handled,
                              LAMBDA e : e.chunk.kind = "Track" /\ e.result = "Ok")
    IN  [i \in 1..Len(accepted) |-> TrackNew(accepted[i].chunk.events)]

\* the tracks of a Format, in stored order
TracksOf(fmt) == IF fmt.type = "SingleMultiChannel" THEN <<fmt.track>> ELSE fmt.tracks

\* C24: once a Header chunk and at least one Track chunk were accepted, in
\* either order, the stage is Formatted, of the format type the header
\* declares, with the accepted tracks in arrival order; with accepted Track
\* chunks and no header the stage is KnownTracks with these tracks, and with
\* an accepted header and no track it is KnownFormat.
C24_ResolvedOnHeaderAndTrack ==
    /\ (AcceptedHeaders # {} /\ AcceptedTrackList # <<>>) =>
          /\ format.stage = "Formatted"
          /\ \A i \in AcceptedHeaders :
                format.format.type = format_type(handled[i].chunk.format)
          /\ TracksOf(format.format) = AcceptedTrackList
    /\ (AcceptedHeaders = {} /\ AcceptedTrackList # <<>>) =>
          format = [stage |-> "KnownTracks", tracks |-> AcceptedTrackList]
    /\ (AcceptedHeaders # {} /\ AcceptedTrackList = <<>>) =>
          format.stage = "KnownFormat"

\* C24 witness: two different tracks, then a Simultaneous header, all
\* accepted: the stage is Formatted as Simultaneous with the two tracks in
\* the order they came.
C24_Witness ==
    /\ Len(handled) = 3
    /\ handled[1].chunk.kind = "Track" /\ handled[1].result = "Ok"
    /\ handled[2].chunk.kind = "Track" /\ handled[2].result = "Ok"
    /\ handled[1].chunk # handled[2].chunk
    /\ handled[3].chunk.kind = "Header" /\ handled[3].result = "Ok"
    /\ format = [stage |-> "Formatted",
                 format |-> [type |-> "Simultaneous",
                             tracks |-> <<TrackNew(handled[1].chunk.events),
                                          TrackNew(handled[2].chunk.events)>>]]

\* C25: from a Formatted stage every further chunk leaves the stage
\* Formatted, the format variant and the timing as they are; the format
\* changes only by an accepted Track chunk appended to the tracks of a
\* Simultaneous or SequentiallyIndependent format, and a Header chunk is
\* always rejected.
C25_FormattedIsTerminal ==
    [][(format.stage = "Formatted" /\ handled' # handled) =>
          /\ format'.stage = "Formatted"
          /\ format'.format.type = format.format.type
          /\ timing' = timing
          /\ LastHandled'.chunk.kind = "Header" => LastHandled'.result # "Ok"
          /\ format' # format =>
                /\ LastHandled'.chunk.kind = "Track" /\ LastHandled'.result = "Ok"
                /\ format.format.type \in {"Simultaneous", "SequentiallyIndependent"}
                /\ format'.format.tracks =
                      Append(format.format.tracks,
                             TrackNew(LastHandled'.chunk.events))]_vars

\* C25 witness: a Formatted Simultaneous builder was given a Header, an
\* Unknown and a Track chunk; the header was rejected and the stage is
\* Formatted with the track appended.
C25_Witness ==
    /\ Len(handled) = 4
    /\ handled[1].chunk.kind = "Header" /\ handled[1].result = "Ok"
    /\ handled[2].chunk.kind = "Track" /\ handled[2].result = "Ok"
    /\ handled[3].chunk.kind = "Header" /\ handled[3].result = "DuplicateHeader"
    /\ handled[4].chunk.kind = "Track" /\ handled[4].result = "Ok"
    /\ format.stage = "Formatted"
    /\ format.format.type = "Simultaneous"
    /\ Len(format.format.tracks) = 2
    /\ timing = Some(handled[1].chunk.timing)

\* C32: a builder has a timing recorded exactly when its stage is
\* KnownFormat or Formatted, and the tracks of a KnownTracks stage are never
\* empty; so no call of handle_chunk returns DuplicateFormat and build never
\* returns NoTiming.
C32_TimingIffHeaderSeen ==
    /\ IsSome(timing) <=> format.stage \in {"KnownFormat", "Formatted"}
    /\ format.stage = "KnownTracks" => format.tracks # <<>>
    /\ \A i \in 1..Len(handled) : handled[i].result # "DuplicateFormat"
    /\ built # None => Unwrap(built).result # "NoTiming"

\* C32 witness: after two tracks a format-0 header was rejected, which left
\* the stage KnownTracks with no timing; a second header was accepted and
\* build returned the file.
C32_Witness ==
    /\ Len(handled) = 4
    /\ handled[1].chunk.kind = "Track" /\ handled[1].result = "Ok"
    /\ handled[2].chunk.kind = "Track" /\ handled[2].result = "Ok"
    /\ handled[3].chunk.kind = "Header"
    /\ handled[3].result = "MultipleTracksForSingleMultiChannel"
    /\ handled[4].chunk.kind = "Header" /\ handled[4].result = "Ok"
    /\ format.stage = "Formatted"
    /\ timing = Some(handled[4].chunk.timing)
    /\ built # None /\ Unwrap(built).result = "Ok"

RECURSIVE FeedChunks(_, _)
\* the builder after handle_chunk was called on b with each of chunks in turn
FeedChunks(b, chunks) ==
    IF chunks = <<>> THEN b
    ELSE FeedChunks(handle_chunk(b, Head(chunks)).builder, Tail(chunks))

\* the chunks handled so far
HandledChunks == [i \in 1..Len(handled) |-> handled[i].chunk]

\* MidiFileBuilder::default as a value
DefaultBuilder == BuilderState([stage |-> "Unknown"], None, <<>>)

\* C31: handle_chunk on an Unknown chunk succeeds in every stage, appends
\* the chunk to the unknown chunks and leaves the stage, with its tracks, and
\* the timing as they are; build gives what it gives on the same chunks
\* without the Unknown ones.
C31_UnknownChunkFrame ==
    /\ [](built # None =>
            Unwrap(built)
              = build(FeedChunks(DefaultBuilder,
                                 SelectSeq(HandledChunks,
                                           LAMBDA c : c.kind # "Unknown"))))
    /\ [][(handled' # handled /\ LastHandled'.chunk.kind = "Unknown") =>
             /\ LastHandled'.result = "Ok"
             /\ format' = format
             /\ timing' = timing
             /\ unknown_chunks' = Append(unknown_chunks, LastHandled'.chunk.data)]_vars

\* C31 witness: an Unknown chunk was accepted in each of the stages Unknown,
\* KnownFormat, Formatted, and build returned the file of the header and
\* the track.
C31_Witness ==
    /\ Len(handled) = 4
    /\ handled[1].chunk.kind = "Unknown" /\ handled[1].result = "Ok"
    /\ handled[2].chunk.kind = "Header" /\ handled[2].result = "Ok"
    /\ handled[3].chunk.kind = "Unknown" /\ handled[3].result = "Ok"
    /\ handled[4].chunk.kind = "Track" /\ handled[4].result = "Ok"
    /\ Len(unknown_chunks) = 2
    /\ built # None
    /\ Unwrap(built).result = "Ok"
    /\ Unwrap(built).file.timing = handled[2].chunk.timing

\* the first Header chunk handled is the i-th chunk
FirstHeaderAt(i) ==
    /\ handled[i].chunk.kind = "Header"
    /\ \A j \in 1..(i - 1) : handled[j].chunk.kind # "Header"

\* C34: the tracks of a built Simultaneous or SequentiallyIndependent file
\* are the accepted Track chunks in the order they came, before or
\* after the header; the count of tracks the header declares is not looked
\* at: the first header of these two types is accepted after any number of
\* tracks, every decodable track is accepted before and after it, and build
\* succeeds.
C34_TracksInArrivalOrder ==
    LET multi == {"Simultaneous", "SequentiallyIndependent"}
        first == {i \in 1..Len(handled) :
                    FirstHeaderAt(i) /\ handled[i].chunk.format.type \in multi}
    IN  first # {} =>
          /\ \A i \in first : handled[i].result = "Ok"
          /\ \A i \in 1..Len(handled) :
                (handled[i].chunk.kind = "Track" /\ handled[i].chunk.ok) =>
                    handled[i].result = "Ok"
          /\ (built # None /\ AcceptedTrackList # <<>>) =>
                /\ Unwrap(built).result = "Ok"
                /\ Unwrap(built).file.format.type \in multi
                /\ Unwrap(built).file.format.tracks = AcceptedTrackList

\* C34 witness: build returned a Simultaneous file of three tracks, one that
\* came before the header and two after, under a header that declares two.
C34_Witness ==
    /\ Len(handled) = 4
    /\ handled[2].chunk.kind = "Header"
    /\ handled[2].chunk.format = [type |-> "Simultaneous", num_tracks |-> <<0, 2>>]
    /\ \A i \in {1, 3, 4} : handled[i].chunk.kind = "Track"
    /\ \A i \in 1..4 : handled[i].result = "Ok"
    /\ handled[1].chunk # handled[3].chunk
    /\ built # None
    /\ Unwrap(built).result = "Ok"
    /\ Unwrap(built).file.format.tracks
          = <<TrackNew(handled[1].chunk.events), TrackNew(handled[3].chunk.events),
              TrackNew(handled[4].chunk.events)>>

RECURSIVE FeedAndBuild(_, _)
\* handle_chunk on each of chunks in turn up to the first error, which is
\* the outcome; without an error the outcome is the result of build
FeedAndBuild(b, chunks) ==
    IF chunks = <<>> THEN build(b)
    ELSE LET r == handle_chunk(b, Head(chunks))
         IN  IF r.result # "Ok" THEN [result |-> r.result]
             ELSE FeedAndBuild(r.builder, Tail(chunks))

\* the outcome of the run so far, once build was called: the first error of
\* handle_chunk, or without one the result of build
RunOutcome ==
    LET errors == {i \in 1..Len(handled) : handled[i].result # "Ok"}
    IN  IF errors = {} THEN Unwrap(built)
        ELSE [result |-> handled[CHOOSE i \in errors : \A j \in errors : i <= j].result]

\* the run was of one Header chunk among Track chunks, and build was called
HeaderAmongTracks ==
    /\ built # None
    /\ Cardinality({i \in 1..Len(handled) : handled[i].chunk.kind = "Header"}) = 1
    /\ \A i \in 1..Len(handled) : handled[i].chunk.kind \in {"Header", "Track"}

\* the chunks handled, with the Header chunk moved after the first p Track
\* chunks
HeaderMovedTo(p) ==
    LET tracks == SelectSeq(HandledChunks, LAMBDA c : c.kind = "Track")
        header == SelectSeq(HandledChunks, LAMBDA c : c.kind = "Header")
    IN  SubSeq(tracks, 1, p) \o header \o SubSeq(tracks, p + 1, Len(tracks))

ReadOk(v, r) == [ok |-> TRUE, val |-> v, r |-> r]

ReadErr(e, r) == [ok |-> FALSE, err |-> e, r |-> r]

\* Reader::read_next: the byte under the cursor, which moves on by one
read_next(r) ==
    IF r.offset >= Len(r.bytes) THEN ReadErr("OutOfBounds", r)
    ELSE ReadOk(r.bytes[r.offset + 1], [r EXCEPT !.offset = @ + 1])

\* Reader::read_exact: the next n bytes
read_exact(r, n) ==
    IF r.offset + n > Len(r.bytes) THEN ReadErr("OutOfBounds", r)
    ELSE ReadOk(SubSeq(r.bytes, r.offset + 1, r.offset + n),
                [r EXCEPT !.offset = @ + n])

\* ReaderState::decrement_offset
decrement_offset(r, n) == [r EXCEPT !.offset = @ - n]

\* (v << 7) | low7 on a u32
U32Shl7Or(v, low7) ==
    [hi |-> (v.hi * 128 + (v.lo * 128) \div 65536) % 65536,
     lo |-> (v.lo * 128 + low7) % 65536]

RECURSIVE DecodeVarlenFrom(_, _)
\* the loop of decode_varlen: each byte gives its low 7 bits, the first
\* byte with a clear high bit ends the quantity
DecodeVarlenFrom(r, dec) ==
    LET n == read_next(r)
    IN  IF ~n.ok THEN n
        ELSE IF n.val >= 128
        THEN DecodeVarlenFrom(n.r, U32Shl7Or(dec, n.val % 128))
        ELSE ReadOk(U32Shl7Or(dec, n.val % 128), n.r)

\* decode_varlen
decode_varlen(r) == DecodeVarlenFrom(r, [hi |-> 0, lo |-> 0])

\* Reader::read_varlen_slice: a variable-length quantity, then that many bytes
read_varlen_slice(r) ==
    LET len == decode_varlen(r)
    IN  IF ~len.ok THEN len
        ELSE IF len.val.hi > 0 THEN ReadErr("OutOfBounds", len.r)
        ELSE read_exact(len.r, len.val.lo)

\* DataByte::try_from, as the reads of a channel voice message map its error
DataByteAt(b, r) ==
    IF b <= 127 THEN ReadOk(b, r) ELSE ReadErr("InvalidDataByte", r)

\* ChannelVoiceMessage::read, the messages of two validated data bytes, each
\* validated as it is read (NoteOff, Aftertouch, ControlChange)
ReadTwoDataBytes(r) ==
    LET a == read_next(r)
        av == DataByteAt(a.val, a.r)
        b == read_next(a.r)
        bv == DataByteAt(b.val, b.r)
    IN  IF ~a.ok THEN a
        ELSE IF ~av.ok THEN av
        ELSE IF ~b.ok THEN b
        ELSE IF ~bv.ok THEN bv
        ELSE ReadOk(<<a.val, b.val>>, b.r)

\* ChannelVoiceMessage::read, NoteOn: both bytes are read, then validated
ReadNoteOn(r) ==
    LET key == read_next(r)
        velocity == read_next(key.r)
    IN  IF ~key.ok THEN key
        ELSE IF ~velocity.ok THEN velocity
        ELSE IF key.val > 127 \/ velocity.val > 127
        THEN ReadErr("InvalidDataByte", velocity.r)
        ELSE ReadOk(<<key.val, velocity.val>>, velocity.r)

\* ChannelVoiceMessage::read, the messages of one validated data byte
\* (ProgramChange, ChannelPressureAfterTouch)
ReadOneDataByte(r) ==
    LET a == read_next(r)
    IN  IF ~a.ok THEN a
        ELSE IF a.val > 127 THEN ReadErr("InvalidDataByte", a.r)
        ELSE ReadOk(<<a.val>>, a.r)

\* PitchBend::new_unchecked
PitchBendNewUnchecked(lsb, msb) == [lsb |-> lsb, msb |-> msb]

\* A pitch bend that takes the first byte read for the msb.
PitchBendOfBigEndian(b) == PitchBendNewUnchecked(b[2], b[1])

\* ChannelVoiceMessage::read, 0xE: lsb = b[0], msb = b[1]
PitchBendOf(b) == PitchBendNewUnchecked(b[1], b[2])

\* ChannelVoiceMessage::read: the VoiceEvent made of the data bytes read
VoiceEventOf(nibble, b) ==
    CASE nibble = 8 -> [variant |-> "NoteOff", note |-> b[1], velocity |-> b[2]]
      [] nibble = 9 -> [variant |-> "NoteOn", note |-> b[1], velocity |-> b[2]]
      [] nibble = 10 -> [variant |-> "Aftertouch", note |-> b[1], velocity |-> b[2]]
      [] nibble = 11 -> [variant |-> "ControlChange", bytes |-> b]
      [] nibble = 12 -> [variant |-> "ProgramChange", program |-> b[1]]
      [] nibble = 13 -> [variant |-> "ChannelPressureAfterTouch", velocity |-> b[1]]
      [] nibble = 14 -> [variant |-> "PitchBend", bend |-> PitchBendOf(b)]

\* ChannelVoiceMessage::data_1_byte
data_1_byte(msg) ==
    CASE msg.event.variant \in {"NoteOn", "NoteOff", "Aftertouch"} -> msg.event.note
      [] msg.event.variant = "ControlChange" -> msg.event.bytes[1]
      [] msg.event.variant = "ProgramChange" -> msg.event.program
      [] msg.event.variant = "ChannelPressureAfterTouch" -> msg.event.velocity
      [] msg.event.variant = "PitchBend" -> msg.event.bend.lsb

\* ChannelVoiceMessage::data_2_byte
data_2_byte(msg) ==
    CASE msg.event.variant \in {"NoteOn", "NoteOff", "Aftertouch",
                                "ChannelPressureAfterTouch"} ->
            Some(msg.event.velocity)
      [] msg.event.variant = "ControlChange" ->
            IF Len(msg.event.bytes) >= 2 THEN Some(msg.event.bytes[2]) ELSE None
      [] msg.event.variant = "PitchBend" -> Some(msg.event.bend.msb)
      [] OTHER -> None

\* Controller::read: the controller and its value, two validated data bytes
ControllerRead(r) == ReadTwoDataBytes(r)

\* A read that takes two data bytes for ChannelPressureAfterTouch.
ChannelVoiceMessageReadWidePressure(status, r) ==
    LET nibble == status \div 16
        data == CASE nibble \in {8, 10, 13} -> ReadTwoDataBytes(r)
                  [] nibble = 11 -> ControllerRead(r)
                  [] nibble = 9 -> ReadNoteOn(r)
                  [] nibble = 12 -> ReadOneDataByte(r)
                  [] nibble = 14 -> read_exact(r, 2)
                  [] OTHER -> ReadErr("InvalidStatusByte", r)
    IN  IF ~data.ok THEN data
        ELSE ReadOk([kind |-> "ChannelVoice", status |-> status,
                     event |-> VoiceEventOf(nibble, data.val)],
                    data.r)

\* ChannelVoiceMessage::read: the data bytes by the high nibble of the status
ChannelVoiceMessageRead(status, r) ==
    LET nibble == status \div 16
        data == CASE nibble \in {8, 10} -> ReadTwoDataBytes(r)
                  [] nibble = 11 -> ControllerRead(r)
                  [] nibble = 9 -> ReadNoteOn(r)
                  [] nibble \in {12, 13} -> ReadOneDataByte(r)
                  [] nibble = 14 -> read_exact(r, 2)
                  [] OTHER -> ReadErr("InvalidStatusByte", r)
    IN  IF ~data.ok THEN data
        ELSE ReadOk([kind |-> "ChannelVoice", status |-> status,
                     event |-> VoiceEventOf(nibble, data.val)],
                    data.r)

\* A tempo read with the least significant byte first.
NewFromBytesLittleEndian(v) ==
    LET val == [i \in 1..4 |-> IF i <= Len(v) THEN v[i] ELSE 0]
    IN  val[3] * 65536 + val[2] * 256 + val[1]

\* Tempo::new_from_bytes: the first bytes of v (four at most) fill val, the
\* tempo is u32::from_be_bytes([0, val[0], val[1], val[2]])
new_from_bytes(v) ==
    LET val == [i \in 1..4 |-> IF i <= Len(v) THEN v[i] ELSE 0]
    IN  val[1] * 65536 + val[2] * 256 + val[3]

SmpteOk(offset) == [ok |-> TRUE, val |-> offset]

\* Err(SmpteError::kind(value))
SmpteErr(kind, value) == [ok |-> FALSE, err |-> [kind |-> kind, value |-> value]]

\* the SmpteFps of the frame type bits 0..3
FrameType(v) ==
    CASE v = 0 -> "TwentyFour"
      [] v = 1 -> "TwentyFive"
      [] v = 2 -> "TwentyNine"
      [] v = 3 -> "Thirty"

\* A parse that looks at the minute before the hour.
SmpteOffsetParseMinuteFirst(data) ==
    IF Len(data) # 5 THEN SmpteErr("Length", Len(data))
    ELSE IF data[1] \div 32 > 3 THEN SmpteErr("TrackFrame", data[1] \div 32)
    ELSE IF data[2] > 59 THEN SmpteErr("MinuteOffset", data[2])
    ELSE IF data[1] % 32 > 23 THEN SmpteErr("HourOffset", data[1] % 32)
    ELSE IF data[3] > 59 THEN SmpteErr("SecondOffset", data[3])
    ELSE IF data[5] > 99 THEN SmpteErr("Subframe", data[5])
    ELSE SmpteOk([fps |-> FrameType(data[1] \div 32), hour |-> data[1] % 32,
                  minute |-> data[2], second |-> data[3],
                  frame |-> data[4], subframe |-> data[5]])

\* A parse that takes the low six bits of the first byte for the hour.
SmpteOffsetParseWideHour(data) ==
    IF Len(data) # 5 THEN SmpteErr("Length", Len(data))
    ELSE IF data[1] \div 32 > 3 THEN SmpteErr("TrackFrame", data[1] \div 32)
    ELSE IF data[1] % 64 > 23 THEN SmpteErr("HourOffset", data[1] % 64)
    ELSE IF data[2] > 59 THEN SmpteErr("MinuteOffset", data[2])
    ELSE IF data[3] > 59 THEN SmpteErr("SecondOffset", data[3])
    ELSE IF data[5] > 99 THEN SmpteErr("Subframe", data[5])
    ELSE SmpteOk([fps |-> FrameType(data[1] \div 32), hour |-> data[1] % 64,
                  minute |-> data[2], second |-> data[3],
                  frame |-> data[4], subframe |-> data[5]])

\* SmpteOffset::parse (data[0] >> 5 is the frame type, data[0] & 0b0001_1111
\* the hour; the frame is not checked)
SmpteOffsetParse(data) ==
    IF Len(data) # 5 THEN SmpteErr("Length", Len(data))
    ELSE IF data[1] \div 32 > 3 THEN SmpteErr("TrackFrame", data[1] \div 32)
    ELSE IF data[1] % 32 > 23 THEN SmpteErr("HourOffset", data[1] % 32)
    ELSE IF data[2] > 59 THEN SmpteErr("MinuteOffset", data[2])
    ELSE IF data[3] > 59 THEN SmpteErr("SecondOffset", data[3])
    ELSE IF data[5] > 99 THEN SmpteErr("Subframe", data[5])
    ELSE SmpteOk([fps |-> FrameType(data[1] \div 32), hour |-> data[1] % 32,
                  minute |-> data[2], second |-> data[3],
                  frame |-> data[4], subframe |-> data[5]])

\* MetaMessage::read: a type byte, then a length-prefixed payload, which is
\* dispatched by the type: 0x51 is a Tempo, 0x54 a SMPTE offset, whose
\* parse error fails the read; the payload of the other types is kept as it
\* is read.
MetaMessageRead(r) ==
    LET type == read_next(r)
        data == read_varlen_slice(type.r)
        offset == SmpteOffsetParse(data.val)
    IN  IF ~type.ok THEN type
        ELSE IF ~data.ok THEN data
        ELSE IF type.val = 81
        THEN ReadOk([kind |-> "Meta", meta |-> "Tempo",
                     value |-> new_from_bytes(data.val)], data.r)
        ELSE IF type.val = 84
        THEN IF offset.ok
             THEN ReadOk([kind |-> "Meta", meta |-> "SmpteOffset",
                          value |-> offset.val], data.r)
             ELSE ReadErr(offset.err, data.r)
        ELSE ReadOk([kind |-> "Meta", meta |-> "Other", type |-> type.val,
                     data |-> data.val], data.r)

\* TrackEvent::read, the 0xF0 arm after read_varlen_slice: Vec::truncate(1)
\* on a payload that is not empty
SysExData(data) == IF data # <<>> THEN SubSeq(data, 1, 1) ELSE data

\* A StatusByte check that starts the range at 0x81.
StatusByteTryFromAbove(b) ==
    IF 129 <= b /\ b <= 255 THEN [ok |-> TRUE, val |-> <<b>>]
    ELSE [ok |-> FALSE, err |-> [kind |-> "InvalidStatusByte", value |-> b]]

\* TryFrom<u8> for StatusByte
StatusByteTryFrom(b) ==
    IF 128 <= b /\ b <= 255 THEN [ok |-> TRUE, val |-> <<b>>]
    ELSE [ok |-> FALSE, err |-> [kind |-> "InvalidStatusByte", value |-> b]]

\* StatusByte::new
StatusByteNew(b) == StatusByteTryFrom(b)

\* StatusByte::byte
StatusByte_byte(status) == status[1]

\* A status resolution that stores every byte it resolves as the running
\* status.
ResolveStatusStoringAny(r, byte, rs) ==
    IF byte \div 128 = 1
    THEN [ok |-> TRUE, status |-> byte, r |-> r, rs |-> Some(byte)]
    ELSE IF IsSome(rs)
    THEN [ok |-> TRUE, status |-> Unwrap(rs), r |-> decrement_offset(r, 1),
          rs |-> Some(byte)]
    ELSE [ok |-> FALSE, r |-> r, rs |-> rs]

\* A status resolution that reuses the running status without moving the
\* cursor back.
ResolveStatusWithoutRewind(r, byte, rs) ==
    IF byte \div 128 = 1
    THEN [ok |-> TRUE, status |-> byte, r |-> r, rs |-> Some(byte)]
    ELSE IF IsSome(rs)
    THEN [ok |-> TRUE, status |-> Unwrap(rs), r |-> r, rs |-> rs]
    ELSE [ok |-> FALSE, r |-> r, rs |-> rs]

\* A status resolution that takes NoteOff on channel 1 when no running
\* status is stored.
ResolveStatusDefaulting(r, byte, rs) ==
    IF byte \div 128 = 1
    THEN [ok |-> TRUE, status |-> byte, r |-> r, rs |-> Some(byte)]
    ELSE [ok |-> TRUE, status |-> IF IsSome(rs) THEN Unwrap(rs) ELSE 128,
          r |-> decrement_offset(r, 1), rs |-> rs]

\* TrackEvent::read, the status of a byte that is neither 0xF0 nor 0xFF: the
\* byte itself when its high bit is set, which becomes the running status;
\* else the running status, the cursor moved back by one; else no status
ResolveStatus(r, byte, rs) ==
    IF byte \div 128 = 1
    THEN [ok |-> TRUE, status |-> byte, r |-> r, rs |-> Some(byte)]
    ELSE IF IsSome(rs)
    THEN [ok |-> TRUE, status |-> Unwrap(rs), r |-> decrement_offset(r, 1), rs |-> rs]
    ELSE [ok |-> FALSE, r |-> r, rs |-> rs]

\* the result of TrackEvent::read with the Reader and running status after it
ReadResult(res, r, rs) == [result |-> res, r |-> r, rs |-> rs]

EventOk(delta, msg) == [ok |-> TRUE, event |-> [delta_time |-> delta, event |-> msg]]

EventErr(e) == [ok |-> FALSE, err |-> e]

\* A read whose system exclusive and meta events clear the running status.
TrackEventMessageClearing(delta, next_event, r, rs) ==
    CASE next_event = 240 ->
            LET data == read_varlen_slice(r)
            IN  IF ~data.ok THEN ReadResult(EventErr(data.err), data.r, None)
                ELSE ReadResult(
                        EventOk(delta, [kind |-> "SystemExclusive",
                                        data |-> SysExData(data.val)]),
                        data.r, None)
      [] next_event = 255 ->
            LET meta == MetaMessageRead(r)
            IN  IF ~meta.ok THEN ReadResult(EventErr(meta.err), meta.r, None)
                ELSE ReadResult(EventOk(delta, meta.val), meta.r, None)
      [] OTHER ->
            LET st == ResolveStatus(r, next_event, rs)
                status == StatusByteTryFrom(st.status)
                msg == ChannelVoiceMessageRead(StatusByte_byte(status.val), st.r)
            IN  IF ~st.ok THEN ReadResult(EventErr("InvalidMidiEvent"), st.r, st.rs)
                ELSE IF ~status.ok THEN ReadResult(EventErr("unwrap panic"), st.r, st.rs)
                ELSE IF ~msg.ok THEN ReadResult(EventErr(msg.err), msg.r, st.rs)
                ELSE ReadResult(EventOk(delta, msg.val), msg.r, st.rs)

\* TrackEvent::read, after the delta time and the next byte were read; the
\* status goes through StatusByte::try_from(status).unwrap()
TrackEventMessage(delta, next_event, r, rs) ==
    CASE next_event = 240 ->
            LET data == read_varlen_slice(r)
            IN  IF ~data.ok THEN ReadResult(EventErr(data.err), data.r, rs)
                ELSE ReadResult(
                        EventOk(delta, [kind |-> "SystemExclusive",
                                        data |-> SysExData(data.val)]),
                        data.r, rs)
      [] next_event = 255 ->
            LET meta == MetaMessageRead(r)
            IN  IF ~meta.ok THEN ReadResult(EventErr(meta.err), meta.r, rs)
                ELSE ReadResult(EventOk(delta, meta.val), meta.r, rs)
      [] OTHER ->
            LET st == ResolveStatus(r, next_event, rs)
                status == StatusByteTryFrom(st.status)
                msg == ChannelVoiceMessageRead(StatusByte_byte(status.val), st.r)
            IN  IF ~st.ok THEN ReadResult(EventErr("InvalidMidiEvent"), st.r, st.rs)
                ELSE IF ~status.ok THEN ReadResult(EventErr("unwrap panic"), st.r, st.rs)
                ELSE IF ~msg.ok THEN ReadResult(EventErr(msg.err), msg.r, st.rs)
                ELSE ReadResult(EventOk(delta, msg.val), msg.r, st.rs)

\* A track event read that reports the end of the bytes as Eof.
TrackEventReadEofAtEnd(r, rs) ==
    LET delta_time == decode_varlen(r)
        next_event == read_next(delta_time.r)
        res == TrackEventMessage(delta_time.val, next_event.val, next_event.r, rs)
    IN  IF ~delta_time.ok THEN ReadResult(EventErr("Eof"), delta_time.r, rs)
        ELSE IF ~next_event.ok THEN ReadResult(EventErr("Eof"), next_event.r, rs)
        ELSE IF ~res.result.ok /\ res.result.err = "OutOfBounds"
        THEN ReadResult(EventErr("Eof"), res.r, res.rs)
        ELSE res

\* TrackEvent::read
TrackEventRead(r, rs) ==
    LET delta_time == decode_varlen(r)
        next_event == read_next(delta_time.r)
    IN  IF ~delta_time.ok THEN ReadResult(EventErr(delta_time.err), delta_time.r, rs)
        ELSE IF ~next_event.ok
        THEN ReadResult(EventErr(next_event.err), next_event.r, rs)
        ELSE TrackEventMessage(delta_time.val, next_event.val, next_event.r, rs)

\* The bytes a track body is made of: delta 0, length 2, a data byte, the
\* ProgramChange and PitchBend statuses, and the 0xF0, 0xF7 and 0xFF bytes.
BodyBytes == {0, 2, 64, 192, 224, 240, 247, 255}

\* The length of a track body.
MaxBodyLen == 5

TrackBodies == UNION {[1..n -> BodyBytes] : n \in 0..MaxBodyLen}

\* The events a longer track body is made of: ProgramChange, PitchBend, a
\* system exclusive event, the end-of-track meta event, and events without
\* a status byte, of one and of two data bytes.
BodyEvents ==
    {<<0, 192, 0>>, <<0, 224, 0, 64>>, <<0, 240, 1, 247>>, <<0, 255, 47, 0>>,
     <<0, 64>>, <<0, 2, 64>>}

\* The number of events of a longer track body.
MaxBodyEvents == 4

RECURSIVE ConcatAll(_)
\* the sequences of ss one after the other
ConcatAll(ss) == IF ss = <<>> THEN <<>> ELSE Head(ss) \o ConcatAll(Tail(ss))

EventBodies ==
    {ConcatAll(ss) : ss \in UNION {[1..n -> BodyEvents] : n \in 1..MaxBodyEvents}}

\* The status bytes of the channel voice bodies: one of each high nibble
\* 0x8 to 0xE, and 0xF1, 0xF7, 0xF8 and 0xFE.
VoiceStatuses == {128, 147, 160, 177, 192, 213, 224, 241, 247, 248, 254}

\* The bytes after the status byte of a channel voice body.
VoiceDataBytes == {0, 64, 127, 128, 255}

\* The number of bytes after the status byte of a channel voice body.
MaxVoiceData == 3

\* Bodies of delta 0, a status byte and up to MaxVoiceData bytes.
VoiceBodies ==
    {<<0, s>> \o d : s \in VoiceStatuses,
                     d \in UNION {[1..n -> VoiceDataBytes] : n \in 0..MaxVoiceData}}

\* A Reader at the start of a track body, no running status stored.
InitReader ==
    /\ reader \in {[bytes |-> b, offset |-> 0] :
                      b \in TrackBodies \cup EventBodies \cup VoiceBodies}
    /\ running_status = None
    /\ reads = <<>>

\* One call of TrackEvent::read on the body: events are read while bytes are
\* left, up to the first error.
ReadEvent ==
    /\ reader.offset < Len(reader.bytes)
    /\ IF reads = <<>> THEN TRUE ELSE reads[Len(reads)].result.ok
    /\ \E res \in {TrackEventRead(reader, running_status)} :
           /\ reader' = res.r
           /\ running_status' = res.rs
           /\ reads' = Append(reads, [offset |-> reader.offset,
                                      rs |-> running_status,
                                      result |-> res.result,
                                      after |-> res.r.offset,
                                      rs_after |-> res.rs])
    /\ UNCHANGED <<varsBuilder, varsIter, varsParse, varsCall>>

NextReader == ReadEvent

\* The payload bytes of the Tempo meta events.
TempoBytes == {0, 7, 32, 161, 255}

\* Bodies of one Tempo meta event, 00 FF 51 03 a b c, and bodies without
\* one: a ProgramChange and an end-of-track meta event.
TempoBodies ==
    {<<0, 255, 81, 3, a, b, c>> : a \in TempoBytes, b \in TempoBytes, c \in TempoBytes}
    \cup {<<0, 192, 0>>, <<0, 255, 47, 0>>}

\* First bytes of a SMPTE offset: the four frame types with hours 0, 23, 1
\* and 23, hours 24 and 31, and the frame types 4 and 7.
SmpteFirstBytes == {0, 23, 55, 65, 119, 24, 127, 128, 248}

\* Bodies of one SMPTE offset meta event, 00 FF 54 05 and five bytes, and
\* the same with payloads of 0, 3, 4 and 6 bytes.
SmpteOffsetBodies ==
    {<<0, 255, 84, 5, b0, b1, b2, b3, b4>> :
        b0 \in SmpteFirstBytes, b1 \in {0, 59, 60}, b2 \in {0, 59, 60},
        b3 \in {0, 255}, b4 \in {0, 99, 100}}
    \cup {<<0, 255, 84, n>> \o [i \in 1..n |-> b] : n \in {0, 3, 4, 6}, b \in {0, 100}}

MetaBodies == TempoBodies \cup SmpteOffsetBodies

\* A Reader at the start of a body of one meta event.
InitMeta ==
    /\ reader \in {[bytes |-> b, offset |-> 0] : b \in MetaBodies}
    /\ running_status = None
    /\ reads = <<>>

(***************************************************************************)
(* Properties of TrackEvent::read                                          *)
(***************************************************************************)

\* The byte a call of TrackEvent::read found after the delta time, if the
\* body holds both: <<position of the byte (1-based), byte>>, else <<>>.
ByteAfterDelta(bytes, offset) ==
    LET d == decode_varlen([bytes |-> bytes, offset |-> offset])
        n == read_next(d.r)
    IN  IF d.ok /\ n.ok THEN <<n.r.offset, n.val>> ELSE <<>>

\* bytes with byte b put in front of position p
InsertAt(bytes, p, b) ==
    SubSeq(bytes, 1, p - 1) \o <<b>> \o SubSeq(bytes, p, Len(bytes))

\* the calls in which a running status was stored and the byte after the
\* delta time has its high bit clear
ReusingReads ==
    {i \in 1..Len(reads) :
        /\ IsSome(reads[i].rs)
        /\ ByteAfterDelta(reader.bytes, reads[i].offset) # <<>>
        /\ ByteAfterDelta(reader.bytes, reads[i].offset)[2] < 128}

\* C6: when a running status is stored and the byte after the delta time has
\* its high bit clear, the call decodes a channel voice message with the
\* stored status whose first data byte is that byte, keeps the running
\* status, and gives the result of reading the same event with the status
\* byte written out, consuming exactly one byte fewer.
C6_RunningStatusReuse ==
    \A i \in ReusingReads :
        LET e == reads[i]
            at == ByteAfterDelta(reader.bytes, e.offset)
            explicit == TrackEventRead(
                            [bytes |-> InsertAt(reader.bytes, at[1], Unwrap(e.rs)),
                             offset |-> e.offset], e.rs)
        IN  /\ e.rs_after = e.rs
            /\ e.result = explicit.result
            /\ e.result.ok =>
                  /\ e.result.event.event.kind = "ChannelVoice"
                  /\ e.result.event.event.status = Unwrap(e.rs)
                  /\ data_1_byte(e.result.event.event) = at[2]
                  /\ e.after >= at[1]
                  /\ e.after - e.offset = (explicit.r.offset - e.offset) - 1

\* C6 witness: a ProgramChange with its status byte, then one without: the
\* second took two bytes, the first three.
C6_Witness ==
    /\ Len(reads) = 2
    /\ reads[1].result.ok /\ reads[2].result.ok
    /\ reads[1].after - reads[1].offset = 3
    /\ 2 \in ReusingReads
    /\ reads[2].after - reads[2].offset = 2
    /\ reads[2].result.event.event.status = 192

\* the calls in which no running status was stored and the byte after the
\* delta time has its high bit clear
StatuslessReads ==
    {i \in 1..Len(reads) :
        /\ ~IsSome(reads[i].rs)
        /\ ByteAfterDelta(reader.bytes, reads[i].offset) # <<>>
        /\ ByteAfterDelta(reader.bytes, reads[i].offset)[2] < 128}

\* C7: when no running status is stored and the byte after the delta time has
\* its high bit clear, the call fails as an invalid event, gives no event, and
\* the running status stays unset.
C7_NoRunningStatusFails ==
    \A i \in StatuslessReads :
        /\ reads[i].result = EventErr("InvalidMidiEvent")
        /\ reads[i].rs_after = None
        /\ i = Len(reads) => running_status = None

\* C7 witness: such a call, made after a system exclusive event was read.
C7_Witness ==
    /\ Len(reads) = 2
    /\ reads[1].result.ok
    /\ reads[1].result.event.event.kind = "SystemExclusive"
    /\ 2 \in StatuslessReads
    /\ ~reads[2].result.ok

\* The bytes a system exclusive call consumed as payload, if the body holds
\* them: <<payload>>, else <<>>.
SysExConsumed(bytes, offset) ==
    LET at == ByteAfterDelta(bytes, offset)
        data == read_varlen_slice([bytes |-> bytes, offset |-> at[1]])
    IN  IF at # <<>> /\ at[2] = 240 /\ data.ok THEN <<data.val>> ELSE <<>>

\* C8 as stated: the payload of a system exclusive event is the bytes the
\* length counts, in order, without the last one if and only if it is 0xF7.
C8_SysExPayload ==
    \A i \in 1..Len(reads) :
        LET got == SysExConsumed(reader.bytes, reads[i].offset)
            all == got[1]
        IN  got # <<>> =>
              /\ reads[i].result.ok
              /\ reads[i].result.event.event.kind = "SystemExclusive"
              /\ reads[i].result.event.event.data =
                    IF all # <<>> /\ all[Len(all)] = 247
                    THEN SubSeq(all, 1, Len(all) - 1)
                    ELSE all

\* the calls that decoded a channel voice message of status 0xE
PitchBendReads ==
    {i \in 1..Len(reads) :
        /\ reads[i].result.ok
        /\ reads[i].result.event.event.kind = "ChannelVoice"
        /\ reads[i].result.event.event.status \div 16 = 14}

\* C16: a message of status 0xE is a PitchBend whose lsb is the first of
\* its two data bytes in the body and whose msb is the second; data_1_byte
\* returns the first and data_2_byte the second.
C16_PitchBendLittleEndian ==
    \A i \in PitchBendReads :
        LET msg == reads[i].result.event.event
            first == reader.bytes[reads[i].after - 1]
            second == reader.bytes[reads[i].after]
        IN  /\ msg.event.variant = "PitchBend"
            /\ msg.event.bend.lsb = first
            /\ msg.event.bend.msb = second
            /\ data_1_byte(msg) = first
            /\ data_2_byte(msg) = Some(second)

\* C16 witness: the body 00 E0 02 40 was decoded to a PitchBend with lsb 2
\* and msb 64.
C16_Witness ==
    /\ Len(reader.bytes) >= 4
    /\ SubSeq(reader.bytes, 1, 4) = <<0, 224, 2, 64>>
    /\ 1 \in PitchBendReads
    /\ reads[1].result.event.event.event.bend = [lsb |-> 2, msb |-> 64]

RECURSIVE EventByteOffset(_, _)
\* the offset of the byte after the delta time that starts at offset o: the
\* bytes of a delta time have their high bit set, but for the last one
EventByteOffset(bytes, o) ==
    IF o >= Len(bytes) THEN o + 1
    ELSE IF bytes[o + 1] >= 128 THEN EventByteOffset(bytes, o + 1)
    ELSE o + 1

\* the event of the read e begins with an explicit status byte: a byte after
\* the delta time with its high bit set, other than 0xF0 and 0xFF
ExplicitStatus(e) ==
    LET o == EventByteOffset(reader.bytes, e.offset)
    IN  IF o < Len(reader.bytes) /\ reader.bytes[o + 1] >= 128
           /\ reader.bytes[o + 1] \notin {240, 255}
        THEN Some(reader.bytes[o + 1])
        ELSE None

\* C26: over the calls of TrackEvent::read on one track body, a call changes
\* the running status only when its event begins with an explicit status
\* byte, and then to that byte; system exclusive and meta events leave it as
\* it is; each call starts with the running status the call before left; an
\* event without a status byte takes the stored one; once set it is not
\* cleared.
C26_RunningStatusFrame ==
    \A i \in 1..Len(reads) :
        /\ reads[i].rs_after =
              IF ExplicitStatus(reads[i]) # None THEN ExplicitStatus(reads[i])
              ELSE reads[i].rs
        /\ reads[i].rs = IF i = 1 THEN None ELSE reads[i - 1].rs_after
        /\ reads[i].rs # None => reads[i].rs_after # None
        /\ (/\ reads[i].result.ok
            /\ reads[i].result.event.event.kind = "ChannelVoice"
            /\ ExplicitStatus(reads[i]) = None) =>
              reads[i].result.event.event.status = Unwrap(reads[i].rs)

\* C26 witness: in the body C0 00, F0 01 F7, FF 2F 00, then the data byte
\* 40 with no status byte, the fourth event is a ProgramChange under the
\* status 0xC0 stored by the first one.
C26_Witness ==
    /\ reader.bytes = <<0, 192, 0, 0, 240, 1, 247, 0, 255, 47, 0, 0, 64>>
    /\ Len(reads) = 4
    /\ reads[2].result.ok /\ reads[2].result.event.event.kind = "SystemExclusive"
    /\ reads[3].result.ok /\ reads[3].result.event.event.kind = "Meta"
    /\ reads[4].rs = Some(192)
    /\ reads[4].result.ok
    /\ reads[4].result.event.event.status = 192
    /\ reads[4].result.event.event.event.variant = "ProgramChange"
    /\ running_status = Some(192)

\* C38: over the calls of TrackEvent::read on a track body, the running
\* status, when one is stored, is a byte of 0x80 or more, so that
\* StatusByte::try_from(status).unwrap() does not panic, whatever the bytes.
C38_RunningStatusIsStatusByte ==
    /\ running_status # None => StatusByteTryFrom(Unwrap(running_status)).ok
    /\ \A i \in 1..Len(reads) :
          /\ reads[i].rs # None => Unwrap(reads[i].rs) >= 128
          /\ reads[i].rs_after # None => Unwrap(reads[i].rs_after) >= 128
          /\ ~reads[i].result.ok => reads[i].result.err # "unwrap panic"

\* C38 witness: in the body 00 C0 00, 00 40, 00 40 the second and the
\* third event were decoded under the stored status 0xC0.
C38_Witness ==
    /\ reader.bytes = <<0, 192, 0, 0, 64, 0, 64>>
    /\ Len(reads) = 3
    /\ \A i \in 2..3 :
          /\ reads[i].rs = Some(192)
          /\ reads[i].result.ok
          /\ reads[i].result.event.event.status = 192
    /\ running_status = Some(192)

\* the status the read e decodes a channel voice message under: the byte
\* after the delta time when its high bit is set (0xF0 and 0xFF begin other
\* events), else the running status the call started with
StatusOf(e) ==
    LET o == EventByteOffset(reader.bytes, e.offset)
    IN  IF o >= Len(reader.bytes) \/ o < e.offset + 1 THEN None
        ELSE IF reader.bytes[o + 1] \in {240, 255} THEN None
        ELSE IF reader.bytes[o + 1] >= 128 THEN Some(reader.bytes[o + 1])
        ELSE e.rs

\* the offset of the first data byte of the read e
DataStart(e) ==
    LET o == EventByteOffset(reader.bytes, e.offset)
    IN  IF reader.bytes[o + 1] >= 128 THEN o + 1 ELSE o

\* the data bytes the messages of a high nibble have
DataBytesOf(nibble) == IF nibble \in {8, 9, 10, 11, 14} THEN 2 ELSE 1

\* the message of a high nibble
VariantOf(nibble) ==
    CASE nibble = 8 -> "NoteOff" [] nibble = 9 -> "NoteOn"
      [] nibble = 10 -> "Aftertouch" [] nibble = 11 -> "ControlChange"
      [] nibble = 12 -> "ProgramChange"
      [] nibble = 13 -> "ChannelPressureAfterTouch"
      [] nibble = 14 -> "PitchBend"

\* the data bytes of the read e under the status of high nibble n are in
\* the body
DataInBody(e, n) == DataStart(e) + DataBytesOf(n) <= Len(reader.bytes)

\* C29: a channel voice message is read by the high nibble of its status:
\* under 0x8, 0x9, 0xA, 0xB and 0xE a successful read gives the message of
\* that nibble and consumes exactly two data bytes, under 0xC and 0xD
\* exactly one; data bytes that are there and at most 0x7F are read with
\* success; a status 0xF1 to 0xFE fails as an invalid status byte and gives
\* no event.
C29_DispatchByHighNibble ==
    \A i \in 1..Len(reads) :
        LET e == reads[i]
            n == Unwrap(StatusOf(e)) \div 16
        IN  /\ (StatusOf(e) # None /\ n \in 8..14) =>
                  /\ e.result.ok =>
                        /\ e.result.event.event.kind = "ChannelVoice"
                        /\ e.result.event.event.status = Unwrap(StatusOf(e))
                        /\ e.result.event.event.event.variant = VariantOf(n)
                        /\ e.after = DataStart(e) + DataBytesOf(n)
                  /\ (/\ DataInBody(e, n)
                      /\ \A k \in 1..DataBytesOf(n) :
                            reader.bytes[DataStart(e) + k] <= 127) => e.result.ok
                  /\ ~DataInBody(e, n) => ~e.result.ok
            /\ (StatusOf(e) # None /\ n = 15) =>
                  /\ ~e.result.ok
                  /\ e.result.err = "InvalidStatusByte"
            /\ (e.result.ok /\ e.result.event.event.kind = "ChannelVoice") =>
                  (StatusOf(e) # None /\ n \in 8..14)

\* C29 witness: the body 00 D5 40 00 7F was read as a
\* ChannelPressureAfterTouch of one data byte, then, under the running
\* status, a second one.
C29_Witness ==
    /\ reader.bytes = <<0, 213, 64, 0, 127>>
    /\ Len(reads) = 2
    /\ reads[1].result.ok /\ reads[1].after = 3
    /\ reads[2].result.ok /\ reads[2].after = 5
    /\ reads[2].result.event.event.event.variant = "ChannelPressureAfterTouch"

\* the data bytes of the read e, a channel voice message, in the body
DataBytesRead(e) ==
    SubSeq(reader.bytes, DataStart(e) + 1,
           DataStart(e) + DataBytesOf(Unwrap(StatusOf(e)) \div 16))

\* C30: every data byte of a decoded channel voice message, the lsb and msb
\* of a PitchBend too, is at most 0x7F: a byte of 0x80 or more where a data
\* byte is read makes the read fail.
C30_DataBytesInRange ==
    \A i \in 1..Len(reads) :
        (reads[i].result.ok /\ reads[i].result.event.event.kind = "ChannelVoice") =>
            /\ data_1_byte(reads[i].result.event.event) <= 127
            /\ data_2_byte(reads[i].result.event.event) # None =>
                  Unwrap(data_2_byte(reads[i].result.event.event)) <= 127
            /\ \A k \in 1..Len(DataBytesRead(reads[i])) :
                  DataBytesRead(reads[i])[k] <= 127

\* the events decoded from the body, once it was read to its end
DecodedEvents == [i \in 1..Len(reads) |-> reads[i].result.event]

\* the body was read to its end without an error
BodyDecoded ==
    /\ reads # <<>>
    /\ reader.offset = Len(reader.bytes)
    /\ \A i \in 1..Len(reads) : reads[i].result.ok

\* the body is one meta event of this type: 00 FF type len payload
IsMetaBody(type) ==
    /\ Len(reader.bytes) >= 4
    /\ SubSeq(reader.bytes, 1, 3) = <<0, 255, type>>

\* the payload of the meta event of the body
MetaPayload == SubSeq(reader.bytes, 5, Len(reader.bytes))

\* C17: the track made of a body without a Tempo meta event has the tempo
\* 500,000; the track made of a body with a Tempo meta event of payload
\* [a, b, c] has the tempo a * 65536 + b * 256 + c; a tempo is below 2^24.
C17_TempoResolution ==
    BodyDecoded =>
        \E track \in {TrackNew(DecodedEvents)} :
            /\ ~IsMetaBody(81) => track.info.tempo = 500000
            /\ (IsMetaBody(81) /\ Len(MetaPayload) = 3) =>
                  track.info.tempo = MetaPayload[1] * 65536 + MetaPayload[2] * 256
                                     + MetaPayload[3]
            /\ track.info.tempo < 16777216

\* C17 witness: the body 00 FF 51 03 07 A1 20 was decoded and its track has
\* the tempo 500,000 of the payload; so has the track of the body 00 C0 00.
C17_Witness ==
    /\ BodyDecoded
    /\ reader.bytes = <<0, 255, 81, 3, 7, 161, 32>>
    /\ TrackNew(DecodedEvents).info.tempo = 500000
    /\ TrackNew(<<EventOk(U32FromNat(0),
                          ChannelVoiceMessageRead(192, [bytes |-> <<0>>, offset |-> 0]).val
                         ).event>>).info.tempo = 500000

\* the first violation of a payload in the order length, frame type, hour,
\* minute, second, subframe, with the offending value; <<>> if there is none
FirstViolation(data) ==
    LET found == {v \in {<<1, "Length", Len(data)>>} : Len(data) # 5}
                 \cup (IF Len(data) # 5 THEN {}
                       ELSE {v \in {<<2, "TrackFrame", data[1] \div 32>>} : data[1] >= 128}
                            \cup {v \in {<<3, "HourOffset", data[1] % 32>>} : data[1] % 32 > 23}
                            \cup {v \in {<<4, "MinuteOffset", data[2]>>} : data[2] > 59}
                            \cup {v \in {<<5, "SecondOffset", data[3]>>} : data[3] > 59}
                            \cup {v \in {<<6, "Subframe", data[5]>>} : data[5] > 99})
    IN  IF found = {} THEN <<>>
        ELSE LET v == CHOOSE x \in found : \A y \in found : x[1] <= y[1]
             IN  <<[kind |-> v[2], value |-> v[3]]>>

\* C18: a SMPTE offset payload with a violation is rejected with exactly the
\* first one in the order length, frame type, hour, minute, second, subframe,
\* carrying the offending value; a payload is rejected for no other cause.
C18_FirstViolationReported ==
    (IsMetaBody(84) /\ reads # <<>>) =>
        \E v \in {FirstViolation(MetaPayload)} :
            IF v = <<>> THEN reads[1].result.ok
            ELSE reads[1].result = EventErr(v[1])

\* C18 witness: a payload with hour 24, minute 60, second 60 and subframe 100
\* was rejected with HourOffset(24), and a payload with frame 255 and no
\* violation was accepted.
C18_Witness ==
    /\ IsMetaBody(84) /\ reads # <<>>
    /\ MetaPayload = <<24, 60, 60, 255, 100>>
    /\ reads[1].result = EventErr([kind |-> "HourOffset", value |-> 24])
    /\ SmpteOffsetParse(<<23, 59, 59, 255, 99>>).ok

\* C19: a payload of five bytes with bit 7 of byte 0 clear, hour <= 23,
\* byte 1 <= 59, byte 2 <= 59 and byte 4 <= 99 is parsed to the frame rate of
\* bits 5-6 of byte 0, the hour of its low five bits, and the minute, second,
\* frame and subframe of the bytes 1 to 4, whatever the frame byte.
C19_ValidPayloadParsed ==
    (/\ IsMetaBody(84) /\ reads # <<>>
     /\ Len(MetaPayload) = 5
     /\ MetaPayload[1] < 128 /\ MetaPayload[1] % 32 <= 23
     /\ MetaPayload[2] <= 59 /\ MetaPayload[3] <= 59 /\ MetaPayload[5] <= 99) =>
        /\ reads[1].result.ok
        /\ reads[1].result.event.event.kind = "Meta"
        /\ reads[1].result.event.event.meta = "SmpteOffset"
        /\ LET o == reads[1].result.event.event.value
                bits == (MetaPayload[1] \div 32) % 4
           IN  /\ o.fps = <<"TwentyFour", "TwentyFive", "TwentyNine", "Thirty">>[bits + 1]
               /\ o.hour = MetaPayload[1] % 32
               /\ o.minute = MetaPayload[2]
               /\ o.second = MetaPayload[3]
               /\ o.frame = MetaPayload[4]
               /\ o.subframe = MetaPayload[5]

\* C19 witness: the payload 77 3B 3B FF 63 was parsed to 30 frames per
\* second, 23:59:59, frame 255, subframe 99.
C19_Witness ==
    /\ IsMetaBody(84) /\ reads # <<>>
    /\ MetaPayload = <<119, 59, 59, 255, 99>>
    /\ reads[1].result.ok
    /\ reads[1].result.event.event.value =
          [fps |-> "Thirty", hour |-> 23, minute |-> 59, second |-> 59,
           frame |-> 255, subframe |-> 99]

(***************************************************************************)
(* MidiFile::parse.  The buffer is the chunks encoded in it, in order; the *)
(* last one may be cut short by the end of the buffer.                     *)
(***************************************************************************)

\* SmpteHeader::new: the first byte, read as an i8, names the frame rate
SmpteHeaderNew(bytes) ==
    LET byte == bytes[1] - 256
        frame == CASE byte = -24 -> Some("TwentyFour")
                   [] byte = -25 -> Some("TwentyFive")
                   [] byte = -29 -> Some("TwentyNine")
                   [] byte = -30 -> Some("Thirty")
                   [] OTHER -> None
    IN  IF ~IsSome(frame) THEN [ok |-> FALSE, err |-> "HeaderFrameTime"]
        ELSE IF bytes[2] > 127 THEN [ok |-> FALSE, err |-> "InvalidDataByte"]
        ELSE [ok |-> TRUE,
              val |-> [kind |-> "Smpte", fps |-> Unwrap(frame),
                       ticks_per_frame |-> bytes[2]]]

\* Timing::read on the two timing bytes of a header
TimingRead(bytes) ==
    IF bytes[1] \div 128 = 0
    THEN [ok |-> TRUE, val |-> [kind |-> "TicksPerQuarterNote", inner |-> bytes]]
    ELSE SmpteHeaderNew(bytes)

\* The timing bytes of the encoded headers: 480 ticks per quarter note, 25
\* frames of 40 ticks, a frame rate byte that names no rate, no ticks per
\* quarter note, and 25 frames of no ticks.
HeaderTimingBytes == {<<1, 224>>, <<231, 40>>, <<128, 0>>, <<0, 0>>, <<231, 0>>}

\* The chunks a buffer is made of.
EncodedChunks ==
    {[kind |-> "Header", format |-> f, timing_bytes |-> t] :
        f \in {r \in RawFormats : r.type # "SequentiallyIndependent"},
        t \in HeaderTimingBytes}
    \cup {[kind |-> "Track", ok |-> TRUE,
           events |-> <<ChannelVoiceEvent(240, 2), ChannelVoiceEvent(480, 3)>>],
          [kind |-> "Track", ok |-> FALSE],
          [kind |-> "Unknown", data |-> <<1, 2>>],
          [kind |-> "Truncated"]}

\* The number of chunks in a buffer.
MaxSourceChunks == 3

\* Reader::read_chunk on the unread chunks: the end of the buffer where a
\* chunk starts is the Eof event; a chunk cut short is an out-of-bounds
\* error; a header is parsed, its timing by Timing::read.
read_chunk(src) ==
    IF src = <<>> THEN [ok |-> TRUE, val |-> [kind |-> "Eof"], rest |-> src]
    ELSE LET c == Head(src)
         IN  CASE c.kind = "Truncated" ->
                    [ok |-> FALSE, err |-> "OutOfBounds", rest |-> <<>>]
               [] c.kind = "Header" ->
                    LET t == TimingRead(c.timing_bytes)
                    IN  IF ~t.ok THEN [ok |-> FALSE, err |-> t.err, rest |-> Tail(src)]
                        ELSE [ok |-> TRUE,
                              val |-> [kind |-> "Header", format |-> c.format,
                                       timing |-> t.val],
                              rest |-> Tail(src)]
               [] OTHER -> [ok |-> TRUE, val |-> c, rest |-> Tail(src)]

\* MidiFile::parse called on a buffer
InitParse ==
    /\ source \in UNION {[1..n -> EncodedChunks] : n \in 0..MaxSourceChunks}
    /\ parsed = None

\* The end of MidiFile::parse after the loop: builder.build()
ParseBuild(b) ==
    LET r == build(b)
    IN  IF r.result = "Ok" THEN r ELSE [result |-> "Err", kind |-> r.result]

\* One turn of the loop of MidiFile::parse: read_chunk().unwrap(), then the
\* break on Eof and build(), or handle_chunk with its error returned.
ParseStep ==
    /\ parsed = None
    /\ \E val \in {read_chunk(source)} :
        /\ source' = val.rest
        /\ IF ~val.ok
           THEN /\ parsed' = Some([result |-> "Panic", err |-> val.err])
                /\ UNCHANGED <<format, timing, unknown_chunks, handled>>
           ELSE IF val.val.kind = "Eof"
           THEN /\ parsed' = Some(ParseBuild(Builder))
                /\ UNCHANGED <<format, timing, unknown_chunks, handled>>
           ELSE \E r \in {handle_chunk(Builder, val.val)} :
                /\ format' = r.builder.format
                /\ timing' = r.builder.timing
                /\ unknown_chunks' = r.builder.unknown_chunks
                /\ handled' = Append(handled, [chunk |-> val.val, result |-> r.result])
                /\ parsed' = IF r.result = "Ok" THEN None
                             ELSE Some([result |-> "Err", kind |-> r.result])
    /\ UNCHANGED <<built, varsIter, varsReader, varsCall>>

NextParse == ParseStep

\* C1 as stated: MidiFile::parse ends with a file or with an error, never
\* with a panic; a failure of the chunk reader is returned as an error.
C1_ParseNeverPanics ==
    IsSome(parsed) => Unwrap(parsed).result \in {"Ok", "Err"}

\* the divisor of the micros_per_tick of CurrentTrack::new
TimingDivisor(timing_) ==
    IF timing_.kind = "Smpte" THEN as_division(timing_.fps) * timing_.ticks_per_frame
    ELSE ticks_per_quarter_note(timing_.inner)

\* C37: for every header timing Timing::read accepts, the divisor of the
\* timing resolver is not zero (the masked ticks per quarter note, or the
\* nominal frames per second times the ticks per frame), and the
\* microseconds per tick of every track of a parsed file are a finite
\* number.
C37_DivisorNonZero ==
    /\ \A i \in 1..Len(handled) :
          handled[i].chunk.kind = "Header" =>
              TimingDivisor(handled[i].chunk.timing) # 0
    /\ (IsSome(parsed) /\ Unwrap(parsed).result = "Ok") =>
          LET f == Unwrap(parsed).file
          IN  \A i \in 1..Len(FormatTracks(f.format)) :
                  CurrentTrackNew(FormatTracks(f.format)[i], None,
                                  f.timing).micros_per_tick.cls = "fin"

(***************************************************************************)
(* Reader::read_event.  The Reader holds the bytes of a file, the offset   *)
(* of the next byte and its parse state: between chunks, or in the body of *)
(* a track chunk of a declared length.                                     *)
(***************************************************************************)

InsideMidi == [kind |-> "InsideMidi"]

\* in a track body that starts at offset start and has the declared length
InsideTrack(start, length) == [kind |-> "InsideTrack", start |-> start, length |-> length]

\* the chunk tags "MThd" and "MTrk"
MThd == <<77, 84, 104, 100>>

MTrk == <<77, 84, 114, 107>>

\* u32::from_be_bytes
U32FromBeBytes(b) == [hi |-> b[1] * 256 + b[2], lo |-> b[3] * 256 + b[4]]

\* The header chunk body: six bytes, the format, the number of tracks and
\* the timing.
HeaderChunkRead(r) ==
    LET body == read_exact(r, 6)
        type == body.val[1] * 256 + body.val[2]
        t == TimingRead(SubSeq(body.val, 5, 6))
    IN  IF ~body.ok THEN body
        ELSE IF type > 2 THEN ReadErr("Chunk", body.r)
        ELSE IF ~t.ok THEN ReadErr(t.err, body.r)
        ELSE ReadOk([kind |-> "Header",
                     format |-> <<"SingleMultiChannel", "Simultaneous",
                                  "SequentiallyIndependent">>[type + 1],
                     num_tracks |-> SubSeq(body.val, 3, 4),
                     timing |-> t.val], body.r)

\* The chunk reader: a 4-byte tag and a 4-byte big-endian length; a header
\* is parsed, of a track only the length is recorded, any other chunk keeps
\* its tag and the bytes of the declared length.
ChunkRead(r) ==
    LET tag == read_exact(r, 4)
        len == read_exact(tag.r, 4)
        length == U32FromBeBytes(len.val)
        data == read_exact(len.r, length.lo)
    IN  IF ~tag.ok THEN tag
        ELSE IF ~len.ok THEN len
        ELSE IF tag.val = MThd THEN HeaderChunkRead(len.r)
        ELSE IF tag.val = MTrk
        THEN ReadOk([kind |-> "Track", length |-> length],
                    [len.r EXCEPT !.state = InsideTrack(len.r.offset, length)])
        ELSE IF length.hi > 0 THEN ReadErr("OutOfBounds", len.r)
        ELSE IF ~data.ok THEN data
        ELSE ReadOk([kind |-> "Unknown", tag |-> tag.val, data |-> data.val], data.r)

\* the cursor is in the body of the track chunk
InTrackBody(r) ==
    /\ r.state.kind = "InsideTrack"
    /\ U32Less(U32FromNat(r.offset - r.state.start), r.state.length)

\* the offset where the track body ends, the end of the bytes at most
TrackLimit(r) ==
    IF U32Less(U32FromNat(Len(r.bytes) - r.state.start), r.state.length)
    THEN Len(r.bytes)
    ELSE r.state.start + r.state.length.lo

\* Reader::read_event: in a track body the next event of the body, read
\* within the declared length; else the next chunk, with Eof when no byte
\* is left where it starts.  A track chunk starts without a running status.
read_event(r, rs) ==
    IF InTrackBody(r)
    THEN LET res == TrackEventRead([r EXCEPT !.bytes = SubSeq(@, 1, TrackLimit(r))], rs)
         IN  [res EXCEPT !.r.bytes = r.bytes]
    ELSE IF r.offset >= Len(r.bytes)
    THEN ReadResult(EventErr("Eof"), [r EXCEPT !.state = InsideMidi], rs)
    ELSE LET c == ChunkRead([r EXCEPT !.state = InsideMidi])
         IN  IF ~c.ok THEN ReadResult(EventErr(c.err), c.r, rs)
             ELSE ReadResult([ok |-> TRUE, event |-> c.val], c.r,
                             IF c.val.kind = "Track" THEN None ELSE rs)

\* A header chunk: format 0, one track, 480 ticks per quarter note.
HeaderChunkBytes == MThd \o <<0, 0, 0, 6, 0, 0, 0, 1, 1, 224>>

\* A chunk of the tag "XXXX" and two bytes.
UnknownChunkBytes == <<88, 88, 88, 88, 0, 0, 0, 2, 1, 2>>

\* A track body: NoteOn, a second NoteOn under its running status, a system
\* exclusive event, the end-of-track meta event.
TrackBodyBytes == <<0, 144, 60, 64, 0, 60, 0, 0, 240, 1, 247, 0, 255, 47, 0>>

TrackChunkBytes == MTrk \o <<0, 0, 0, Len(TrackBodyBytes)>> \o TrackBodyBytes

\* Files of whole chunks with whole events: the empty file, a header and a
\* track, and the same with a chunk of another tag between or after them.
WholeFiles ==
    {<<>>, HeaderChunkBytes,
     HeaderChunkBytes \o TrackChunkBytes,
     HeaderChunkBytes \o UnknownChunkBytes \o TrackChunkBytes,
     HeaderChunkBytes \o TrackChunkBytes \o UnknownChunkBytes}

\* the offsets where a chunk of a whole file starts, and its length
ChunkStarts(f) ==
    {n \in {0, Len(HeaderChunkBytes)} : n <= Len(f)}
    \cup {n \in 1..Len(f) :
            \/ /\ n >= Len(UnknownChunkBytes)
               /\ SubSeq(f, n - Len(UnknownChunkBytes) + 1, n) = UnknownChunkBytes
            \/ /\ n >= Len(TrackChunkBytes)
               /\ SubSeq(f, n - Len(TrackChunkBytes) + 1, n) = TrackChunkBytes}

\* Files that end in the middle of a chunk or of an event: the whole files
\* cut at an offset where no chunk starts.
TruncatedFiles ==
    UNION {{SubSeq(f, 1, n) : n \in (1..Len(f)) \ ChunkStarts(f)} : f \in WholeFiles}

\* the file f with the byte at offset i (0-based) replaced by b
WithByte(f, i, b) == [f EXCEPT ![i + 1] = b]

\* Damaged files: a header and a track with a frame rate byte that names no
\* rate, a format above 2, a status 0xF1, a data byte 0x80, a first event
\* without a status, a system exclusive length beyond the track body, a
\* track length beyond the file and a track length that cuts the last event.
DamagedFiles ==
    {WithByte(HeaderChunkBytes \o TrackChunkBytes, d[1], d[2]) :
        d \in {<<12, 128>>, <<9, 3>>, <<23, 241>>, <<24, 128>>, <<23, 60>>,
               <<31, 9>>, <<21, 16>>, <<21, 14>>}}

\* Reader::from_byte_slice on a file
InitEvents ==
    /\ reader \in {[bytes |-> f, offset |-> 0, state |-> InsideMidi] :
                      f \in WholeFiles \cup TruncatedFiles \cup DamagedFiles}
    /\ running_status = None
    /\ reads = <<>>

\* One call of read_event in the loop that reads the events of a file one
\* after the other, up to the first error.
ReadFileEvent ==
    /\ IF reads = <<>> THEN TRUE ELSE reads[Len(reads)].result.ok
    /\ \E res \in {read_event(reader, running_status)} :
           /\ reader' = res.r
           /\ running_status' = res.rs
           /\ reads' = Append(reads, [offset |-> reader.offset,
                                      rs |-> running_status,
                                      result |-> res.result,
                                      after |-> res.r.offset,
                                      rs_after |-> res.rs])
    /\ UNCHANGED <<varsBuilder, varsIter, varsParse, varsCall>>

NextEvents == ReadFileEvent

\* the loop ended: the last call of read_event returned an error
LoopEnded == reads # <<>> /\ ~reads[Len(reads)].result.ok

\* C21: reading the events of a file one after the other ends within as many
\* calls as the file has bytes, and one more; on a file that is damaged or
\* ends in the middle of a chunk or of an event it ends with an error that
\* is not Eof; it ends with Eof only when the bytes end where a chunk starts.
C21_NoSilentEof ==
    /\ Len(reads) <= Len(reader.bytes) + 1
    /\ LoopEnded =>
          /\ reader.bytes \in TruncatedFiles \cup DamagedFiles =>
                reads[Len(reads)].result.err # "Eof"
          /\ reads[Len(reads)].result.err = "Eof" =>
                /\ reader.bytes \in WholeFiles
                /\ reader.offset = Len(reader.bytes)
                /\ {reads[i].offset : i \in 1..Len(reads)}
                       \cap ChunkStarts(reader.bytes) = ChunkStarts(reader.bytes)

\* C21 witness: the file of a header and a track cut in the middle of the
\* second NoteOn was read up to the first NoteOn and ended out of bounds,
\* and a whole file ended with Eof.
C21_Witness ==
    /\ LoopEnded
    /\ reader.bytes = SubSeq(HeaderChunkBytes \o TrackChunkBytes, 1, 28)
    /\ Len(reads) = 4
    /\ reads[3].result.event.event.kind = "ChannelVoice"
    /\ reads[4].result.err = "OutOfBounds"
    /\ read_event([bytes |-> HeaderChunkBytes, offset |-> Len(HeaderChunkBytes),
                   state |-> InsideMidi], None).result.err = "Eof"

(***************************************************************************)
(* StatusByte, DataByte and Note.  The three are tuple structs: a           *)
(* StatusByte and a DataByte hold a u8, a Note holds a DataByte.            *)
(***************************************************************************)

\* TryFrom<u8> for DataByte
DataByteTryFrom(b) ==
    IF 0 <= b /\ b <= 127 THEN [ok |-> TRUE, val |-> <<b>>]
    ELSE [ok |-> FALSE, err |-> [kind |-> "InvalidDataByte", value |-> b]]

\* DataByte::new
DataByteNew(b) == DataByteTryFrom(b)

\* DataByte::value
DataByte_value(data) == data[1]

\* Note(DataByte(b))
NoteOf(b) == <<<<b>>>>

\* Note::byte
Note_byte(note) == note[1][1]

Min(a, b) == IF a < b THEN a ELSE b

\* a + b on u8: the sum; when it is above 255, a panic in a build with
\* overflow checks and the sum modulo 256 in a build without
U8Add(a, b) ==
    IF a + b <= 255 THEN {[panic |-> FALSE, val |-> a + b]}
    ELSE {[panic |-> TRUE], [panic |-> FALSE, val |-> (a + b) % 256]}

\* u8::saturating_sub
saturating_sub(a, b) == IF b > a THEN 0 ELSE a - b

\* the outcomes of an operator that gives a Note
NoteOutcomes(sums) ==
    {IF sum.panic THEN [panic |-> TRUE]
     ELSE [panic |-> FALSE, note |-> NoteOf(Min(sum.val, 127))] : sum \in sums}

\* Add<u8> for Note: (self.0.0 + rhs).min(127)
NoteAdd(note, rhs) == NoteOutcomes(U8Add(Note_byte(note), rhs))

\* AddAssign<u8> for Note: nothing at 127, else as add
NoteAddAssign(note, rhs) ==
    IF Note_byte(note) >= 127 THEN {[panic |-> FALSE, note |-> note]}
    ELSE NoteOutcomes(U8Add(Note_byte(note), rhs))

\* Sub<u8> for Note
NoteSub(note, rhs) ==
    {[panic |-> FALSE, note |-> NoteOf(saturating_sub(Note_byte(note), rhs))]}

\* SubAssign<u8> for Note
NoteSubAssign(note, rhs) ==
    {[panic |-> FALSE, note |-> NoteOf(saturating_sub(Note_byte(note), rhs))]}

\* The calls of the constructors, on every u8.
ByteCalls == [op : {"StatusByte::new", "DataByte::new"}, byte : 0..255]

\* The calls of the Note operators, on every Note and every u8.
NoteCalls == [op : {"add", "add_assign", "sub", "sub_assign"}, note : 0..127, rhs : 0..255]

\* The calls of the two decoders of a channel voice message on the same
\* status, one of each high nibble 0x8 to 0xE, and the same data bytes.
DecoderCalls ==
    {[op |-> "ChannelVoiceMessage::decode", status |-> st, data |-> d] :
        st \in {v \in VoiceStatuses : v <= 239},
        d \in UNION {[1..n -> VoiceDataBytes] : n \in 0..MaxVoiceData}}

\* The events given to Track::new: channel voice and system exclusive
\* events of delta times 0, 1, 480 and 2^31 - 1, and Tempo, SMPTE offset,
\* time signature and track name meta events, two of a kind with different
\* values.
TrackNewEvents ==
    {ChannelVoiceEvent(0, 1), ChannelVoiceEvent(1, 2), ChannelVoiceEvent(2147483647, 3),
     SystemExclusiveEvent(480, 4), TempoEvent(1, 600000), TempoEvent(0, 400000),
     SmpteOffsetEvent(5, [fps |-> "TwentyFive", hour |-> 1, minute |-> 0,
                          second |-> 0, frame |-> 0, subframe |-> 0]),
     [delta_time |-> U32FromNat(2),
      event |-> [kind |-> "Meta", meta |-> "TimeSignature", value |-> <<3, 4>>]],
     [delta_time |-> U32FromNat(0),
      event |-> [kind |-> "Meta", meta |-> "TrackName", value |-> "a"]],
     [delta_time |-> U32FromNat(3),
      event |-> [kind |-> "Meta", meta |-> "TrackName", value |-> "b"]]}

\* The number of events given to Track::new.
MaxTrackEvents == 3

\* The calls of Track::new: on the short tracks, and on the long tracks of
\* events with the largest four-byte delta time.
TrackCalls ==
    {[op |-> "Track::new", events |-> evs] :
        evs \in UNION {[1..n -> TrackNewEvents] : n \in 0..MaxTrackEvents}
                 \cup LongTracks}

\* buf.get_mut(i), i counted from 0: is there a byte at i
get_mut(buf, i) == i < Len(buf)

\* MidiMessageBytes::write_into: the count returned and the buffer after the
\* call.  msg is <<s>>, <<s, d>> or <<s, d1, d2>> for Status, Single, Double;
\* the third byte of a Double goes where buf.get_mut(1) points.
write_into(msg, buf) ==
    IF ~get_mut(buf, 0) THEN [n |-> 0, buf |-> buf]
    ELSE LET b1 == [buf EXCEPT ![1] = msg[1]]
         IN  IF Len(msg) = 1 THEN [n |-> 1, buf |-> b1]
             ELSE IF ~get_mut(b1, 1) THEN [n |-> 1, buf |-> b1]
             ELSE LET b2 == [b1 EXCEPT ![2] = msg[2]]
                  IN  IF Len(msg) = 2 THEN [n |-> 2, buf |-> b2]
                      ELSE IF ~get_mut(b2, 1) THEN [n |-> 2, buf |-> b2]
                      ELSE [n |-> 3, buf |-> [b2 EXCEPT ![2] = msg[3]]]

\* The length of the buffer given to write_into.
MaxBufLen == 4

\* The calls of write_into: a Status, a Single and a Double message on
\* buffers of 0xAA bytes.
WriteCalls ==
    {[op |-> "write_into", msg |-> m, buf |-> [i \in 1..n |-> 170]] :
        m \in {<<248>>, <<192, 5>>, <<144, 64, 127>>, <<144, 64, 64>>},
        n \in 0..MaxBufLen}

\* data.get_byte(i), i counted from 0
get_byte(data, i) == IF i < Len(data) THEN Some(data[i + 1]) ELSE None

\* PitchBend::new: the lsb and the msb are data bytes
PitchBendNew(lsb, msb) ==
    IF ~DataByteTryFrom(lsb).ok \/ ~DataByteTryFrom(msb).ok
    THEN [ok |-> FALSE, err |-> "InvalidDataByte"]
    ELSE [ok |-> TRUE, val |-> PitchBendNewUnchecked(lsb, msb)]

\* from_status_and_data, the arms of data bytes taken by data.get_byte(i) and
\* validated in turn: the n data bytes, MissingData or InvalidDataByte
LiveDataBytes(data, n) ==
    LET first == {i \in 0..(n - 1) :
                    ~IsSome(get_byte(data, i)) \/ Unwrap(get_byte(data, i)) > 127}
        i == CHOOSE k \in first : \A j \in first : k <= j
    IN  IF first = {} THEN [ok |-> TRUE, val |-> SubSeq(data, 1, n)]
        ELSE IF ~IsSome(get_byte(data, i)) THEN [ok |-> FALSE, err |-> "MissingData"]
        ELSE [ok |-> FALSE, err |-> "InvalidDataByte"]

\* ChannelVoiceMessage::from_status_and_data, for a status in 0x80..0xEF
from_status_and_data(status, data) ==
    LET nibble == status \div 16
        msg ==
          CASE nibble \in {8, 9, 10} -> LiveDataBytes(data, 2)
            [] nibble = 11 ->
                 LET c == ControllerRead([bytes |-> data, offset |-> 0])
                 IN  IF c.ok THEN [ok |-> TRUE, val |-> c.val]
                     ELSE IF c.err = "OutOfBounds"
                     THEN [ok |-> FALSE, err |-> "MissingData"]
                     ELSE [ok |-> FALSE, err |-> c.err]
            [] nibble \in {12, 13} -> LiveDataBytes(data, 1)
            [] nibble = 14 ->
                 IF ~IsSome(get_byte(data, 0)) \/ ~IsSome(get_byte(data, 1))
                 THEN [ok |-> FALSE, err |-> "MissingData"]
                 ELSE LET bend == PitchBendNew(Unwrap(get_byte(data, 0)),
                                               Unwrap(get_byte(data, 1)))
                      IN  IF ~bend.ok THEN bend
                          ELSE [ok |-> TRUE, val |-> SubSeq(data, 1, 2)]
        st == StatusByteTryFrom(status)
    IN  IF ~msg.ok THEN msg
        ELSE IF ~st.ok THEN [ok |-> FALSE, err |-> "InvalidStatusByte"]
        ELSE [ok |-> TRUE,
              val |-> [kind |-> "ChannelVoice", status |-> StatusByte_byte(st.val),
                       event |-> VoiceEventOf(nibble, msg.val)]]

\* what a call can return
Outcomes(c) ==
    CASE c.op = "ChannelVoiceMessage::decode" ->
            {[live |-> from_status_and_data(c.status, c.data),
              file |-> ChannelVoiceMessageRead(c.status,
                                               [bytes |-> c.data, offset |-> 0])]}
      [] c.op = "write_into" -> {write_into(c.msg, c.buf)}
      [] c.op = "Track::new" ->
            {[panic |-> FALSE, track |-> TrackNew(c.events)]}
            \cup {[panic |-> TRUE] : x \in {e \in {1} : TrackNewOverflows(c.events)}}
      [] c.op = "StatusByte::new" -> {StatusByteNew(c.byte)}
      [] c.op = "DataByte::new" -> {DataByteNew(c.byte)}
      [] c.op = "add" -> NoteAdd(NoteOf(c.note), c.rhs)
      [] c.op = "add_assign" -> NoteAddAssign(NoteOf(c.note), c.rhs)
      [] c.op = "sub" -> NoteSub(NoteOf(c.note), c.rhs)
      [] c.op = "sub_assign" -> NoteSubAssign(NoteOf(c.note), c.rhs)

\* A call is made.
InitCalls ==
    /\ call \in {Some(c) : c \in ByteCalls \cup NoteCalls \cup TrackCalls
                                   \cup DecoderCalls \cup WriteCalls}
    /\ returned = None

\* The call returns.
Return ==
    /\ call # None
    /\ returned = None
    /\ returned' \in {Some(r) : r \in Outcomes(Unwrap(call))}
    /\ UNCHANGED <<call, varsBuilder, varsIter, varsReader, varsParse>>

NextCalls == Return

\* the call op returned
Returned(ops) == call # None /\ returned # None /\ Unwrap(call).op \in ops

\* C22: for every byte b, StatusByte::new(b) succeeds iff 0x80 <= b <= 0xFF
\* and else fails with InvalidStatusByte(b); DataByte::new(b) succeeds iff
\* b <= 0x7F and else fails with InvalidDataByte(b); the value read back is b;
\* every byte is accepted by exactly one of the two.
C22_ByteConstructors ==
    Returned({"StatusByte::new", "DataByte::new"}) =>
        LET b == Unwrap(call).byte
            r == Unwrap(returned)
        IN  /\ Unwrap(call).op = "StatusByte::new" =>
                  IF 128 <= b /\ b <= 255
                  THEN r.ok /\ StatusByte_byte(r.val) = b
                  ELSE ~r.ok /\ r.err = [kind |-> "InvalidStatusByte", value |-> b]
            /\ Unwrap(call).op = "DataByte::new" =>
                  IF b <= 127
                  THEN r.ok /\ DataByte_value(r.val) = b
                  ELSE ~r.ok /\ r.err = [kind |-> "InvalidDataByte", value |-> b]
            /\ StatusByteNew(b).ok # DataByteNew(b).ok

\* C22 witness: StatusByte::new(0x80) returned a status byte that reads back
\* 0x80, where DataByte::new(0x80) fails with InvalidDataByte(0x80).
C22_Witness ==
    /\ Returned({"StatusByte::new"})
    /\ Unwrap(call).byte = 128
    /\ Unwrap(returned).ok
    /\ StatusByte_byte(Unwrap(returned).val) = 128
    /\ DataByteNew(128) = [ok |-> FALSE, err |-> [kind |-> "InvalidDataByte", value |-> 128]]

\* C23 as stated: for every Note n and every rhs in 0..255, n + rhs and
\* n += rhs give the note min(n.byte() + rhs, 127), n - rhs and n -= rhs give
\* max(n.byte() - rhs, 0), without a wrap-around and without a panic; the
\* byte of the result is in 0..127.
C23_NoteArithmeticSaturates ==
    Returned({"add", "add_assign", "sub", "sub_assign"}) =>
        LET c == Unwrap(call)
            r == Unwrap(returned)
        IN  /\ ~r.panic
            /\ Note_byte(r.note) \in 0..127
            /\ c.op \in {"add", "add_assign"} =>
                  Note_byte(r.note) = Min(c.note + c.rhs, 127)
            /\ c.op \in {"sub", "sub_assign"} =>
                  Note_byte(r.note) = IF c.note - c.rhs > 0 THEN c.note - c.rhs ELSE 0

\* the sum of the delta times of events[1..i] as a natural number in halves:
\* hi * 65536 + lo with lo below 65536, hi not reduced
DeltaSum(events, i) ==
    LET his == FoldRange(LAMBDA acc, k : acc + events[k].delta_time.hi, 0, 1, i)
        los == FoldRange(LAMBDA acc, k : acc + events[k].delta_time.lo, 0, 1, i)
    IN  [hi |-> his + los \div 65536, lo |-> los % 65536]

\* the indexes of the events given to Track::new that are not meta events
Emitted(events) == {i \in 1..Len(events) : events[i].event.kind # "Meta"}

\* the index in events of the k-th event that is not a meta event
EmittedIndex(events, k) ==
    CHOOSE i \in Emitted(events) : Cardinality({j \in Emitted(events) : j <= i}) = k

\* C27: for events whose delta times sum to at most 2^32 - 1, Track::new
\* returns, and each event of the track carries the sum of the delta times
\* of all events given up to and including it, those of the meta events
\* too; an event given first carries its own delta time.
C27_AccumulatedTicks ==
    (Returned({"Track::new"})
     /\ DeltaSum(Unwrap(call).events, Len(Unwrap(call).events)).hi <= 65535) =>
        LET events == Unwrap(call).events
            r == Unwrap(returned)
        IN  /\ ~r.panic
            /\ Len(r.track.events) = Cardinality(Emitted(events))
            /\ \A k \in 1..Len(r.track.events) :
                  r.track.events[k].accumulated_ticks
                     = DeltaSum(events, EmittedIndex(events, k))
            /\ (events # <<>> /\ 1 \in Emitted(events)) =>
                  r.track.events[1].accumulated_ticks = events[1].delta_time

\* C27 witness: Track::new on a Tempo of delta 1, a note of delta 2^31 - 1
\* and a note of delta 2^31 - 1 returned the notes at 2^31 and 2^32 - 1.
C27_Witness ==
    /\ Returned({"Track::new"})
    /\ Unwrap(call).events = <<TempoEvent(1, 600000), ChannelVoiceEvent(2147483647, 3),
                               ChannelVoiceEvent(2147483647, 3)>>
    /\ ~Unwrap(returned).panic
    /\ [k \in 1..2 |-> Unwrap(returned).track.events[k].accumulated_ticks]
          = <<[hi |-> 32768, lo |-> 0], [hi |-> 65535, lo |-> 65535]>>

\* C36: the u32 accumulator of Track::new does not overflow: for events
\* whose delta times are each at most 0x0FFFFFFF, the largest variable-length
\* quantity, Track::new returns without an overflow panic and the
\* accumulated ticks of the events of the track do not decrease.
C36_AccumulatorNeverOverflows ==
    (Returned({"Track::new"})
     /\ \A i \in 1..Len(Unwrap(call).events) :
           ~U32Less(U32FromNat(268435455), Unwrap(call).events[i].delta_time)) =>
        /\ ~Unwrap(returned).panic
        /\ \A k \in 2..Len(Unwrap(returned).track.events) :
              ~U32Less(Unwrap(returned).track.events[k].accumulated_ticks,
                       Unwrap(returned).track.events[k - 1].accumulated_ticks)

\* C39: ChannelVoiceMessage::read and from_status_and_data agree: for a
\* status in 0x80..0xEF and any data bytes, both fail or both succeed with
\* the same message, of the same status and the same VoiceEvent.
C39_DecodersAgree ==
    Returned({"ChannelVoiceMessage::decode"}) =>
        /\ Unwrap(returned).live.ok <=> Unwrap(returned).file.ok
        /\ Unwrap(returned).live.ok =>
              Unwrap(returned).live.val = Unwrap(returned).file.val

\* C40: write_into returns the number of bytes it wrote, at most the length
\* of the buffer; on a buffer long enough a Status writes [s] and returns 1,
\* a Single writes [s, d] and returns 2, a Double writes s, d1, d2 to the
\* first three bytes and returns 3; the other bytes of the buffer are as
\* they were.
C40_WriteInto ==
    Returned({"write_into"}) =>
        LET msg == Unwrap(call).msg
            buf == Unwrap(call).buf
            r == Unwrap(returned)
        IN  /\ r.n <= Len(buf)
            /\ Len(r.buf) = Len(buf)
            /\ \A i \in 1..Len(buf) :
                  r.buf[i] = IF i <= r.n THEN msg[i] ELSE buf[i]
            /\ Len(buf) >= Len(msg) => r.n = Len(msg)

\* the value of the last meta event of a kind in events, if there is one
LastMeta(events, kind) ==
    LET of == {i \in 1..Len(events) :
                 events[i].event.kind = "Meta" /\ events[i].event.meta = kind}
    IN  IF of = {} THEN None
        ELSE Some(events[CHOOSE i \in of : \A j \in of : j <= i].event.value)

\* C28: the track Track::new returns holds no meta event: its events are
\* the channel voice and system exclusive events given, in their order; each
\* field of its TrackInfo (tempo, time signature, SMPTE offset, name) holds
\* the value of the last meta event of its kind, or its default.
C28_MetaFoldedIntoInfo ==
    (Returned({"Track::new"}) /\ ~Unwrap(returned).panic) =>
        LET events == Unwrap(call).events
            track == Unwrap(returned).track
            given == SelectSeq(events, LAMBDA e : e.event.kind # "Meta")
        IN  /\ [k \in 1..Len(track.events) |-> track.events[k].event]
                  = [k \in 1..Len(given) |-> given[k].event]
            /\ Some(track.info.tempo)
                  = IF IsSome(LastMeta(events, "Tempo"))
                    THEN LastMeta(events, "Tempo") ELSE Some(500000)
            /\ Some(track.info.time_signature)
                  = IF IsSome(LastMeta(events, "TimeSignature"))
                    THEN LastMeta(events, "TimeSignature")
                    ELSE Some(DefaultTimeSignature)
            /\ track.info.smpte_offset = LastMeta(events, "SmpteOffset")
            /\ track.info.name = LastMeta(events, "TrackName")

\* C28 witness: Track::new on a Tempo of 600,000, a note and a Tempo of
\* 400,000 returned a track of the note alone with the tempo 400,000, no
\* name and the default time signature.
C28_Witness ==
    /\ Returned({"Track::new"})
    /\ Unwrap(call).events = <<TempoEvent(1, 600000), ChannelVoiceEvent(1, 2),
                               TempoEvent(0, 400000)>>
    /\ ~Unwrap(returned).panic
    /\ Len(Unwrap(returned).track.events) = 1
    /\ Unwrap(returned).track.events[1].event = [kind |-> "ChannelVoice", id |-> 2]
    /\ Unwrap(returned).track.info.tempo = 400000
    /\ Unwrap(returned).track.info.name = None
    /\ Unwrap(returned).track.info.time_signature = DefaultTimeSignature

(***************************************************************************)
(* Specifications.  Each one runs one component from its constructed state *)
(* and leaves the others where they are.                                   *)
(***************************************************************************)

IdleIter ==
    /\ file = None
    /\ iter = NoIter
    /\ results = <<>>

IdleReader ==
    /\ reader = None
    /\ running_status = None
    /\ reads = <<>>

IdleCall ==
    /\ call = None
    /\ returned = None

IdleParse ==
    /\ source = <<>>
    /\ parsed = None

InitSpecBuilder == InitBuilder /\ IdleIter /\ IdleReader /\ IdleParse /\ IdleCall

\* The builder fed any chunks, then built.
SpecBuilder == InitSpecBuilder /\ [][NextBuilder]_vars

InitSpecIter ==
    InitIterWith(IterFiles) /\ InitBuilder /\ IdleReader /\ IdleParse /\ IdleCall

\* into_events on a parsed file and the calls of next() on the iterator.
SpecIter == InitSpecIter /\ [][NextIter]_vars

InitSpecTiming ==
    InitIterWith(TimingFiles) /\ InitBuilder /\ IdleReader /\ IdleParse /\ IdleCall

\* The same calls on single-track files of several timings.
SpecTiming == InitSpecTiming /\ [][NextIter]_vars

InitSpecSmpte ==
    InitIterWith(SmpteFiles) /\ InitBuilder /\ IdleReader /\ IdleParse /\ IdleCall

\* The projector on single-track files under SMPTE timing, with and without
\* a SMPTE offset.
SpecSmpte == InitSpecSmpte /\ [][NextIter]_vars

InitSpecReader == InitReader /\ InitBuilder /\ IdleIter /\ IdleParse /\ IdleCall

\* The events of a track body read one after the other.
SpecReader == InitSpecReader /\ [][NextReader]_vars

InitSpecOffset == InitIterWith(OffsetFiles) /\ InitBuilder /\ IdleReader /\ IdleParse /\ IdleCall

\* The iterator on files whose track carries a SMPTE offset.
SpecOffset == InitSpecOffset /\ [][NextIter]_vars

InitSpecMeta == InitMeta /\ InitBuilder /\ IdleIter /\ IdleParse /\ IdleCall

\* TrackEvent::read on bodies of one Tempo or SMPTE offset meta event.
SpecMeta == InitSpecMeta /\ [][NextReader]_vars

InitSpecEvents == InitEvents /\ InitBuilder /\ IdleIter /\ IdleParse /\ IdleCall

\* Reader::read_event called in a loop on the bytes of a file.
SpecEvents == InitSpecEvents /\ [][NextEvents]_vars

InitSpecCalls == InitCalls /\ InitBuilder /\ IdleIter /\ IdleReader /\ IdleParse

\* One call of a byte constructor or of a Note operator.
SpecCalls == InitSpecCalls /\ [][NextCalls]_vars

InitSpecParse == InitParse /\ InitBuilder /\ IdleIter /\ IdleReader /\ IdleCall

\* MidiFile::parse on a buffer, one chunk after the other.
SpecParse == InitSpecParse /\ [][NextParse]_vars

=============================================================================
